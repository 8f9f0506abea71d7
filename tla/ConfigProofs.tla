--------------------------- MODULE ConfigProofs ---------------------------
(***************************************************************************)
(* What the configuration guarantees at run time: no request over the       *)
(* runtime threshold is sent without a compaction, for any settings, sizes  *)
(* of messages and tools and any estimate of a history; and the validation  *)
(* of a configuration spares the components that are built from it their    *)
(* errors, for all files, flags and servers.                                *)
(***************************************************************************)
EXTENDS CompactBudget, Startup, FilterProofs, FiniteSetTheorems, TLAPS
-----------------------------------------------------------------------------
(* The budget of a thread *)

Messages == [text : Nat, call : Nat]

\* Compacted, or measured with what the request will hold and found small enough.
Fits(total) == (compacted /\ history = Summary) \/ ~Required(total)

\* Between the two measures of an iteration nothing is added to the thread.
BudgetInv ==
  /\ history \in Seq(Messages)
  /\ stage \in {"idle", "measure", "compact", "prepare", "answer"}
  /\ stage \in {"measure", "compact"} => history # <<>>
  /\ stage = "prepare" => (compacted /\ history = Summary) \/ history # <<>>
  /\ stage = "prepare" => Fits(Prepared.total)
  /\ stage = "answer" => (compacted /\ history = Summary) \/ history # <<>>
  /\ stage = "answer" => Fits(request.total)

\* The estimate is a function of what it is made from.
LEMMA PreparedIsStable ==
  ASSUME UNCHANGED <<settings, override, history, tools>>
  PROVE  /\ Prepared' = Prepared
         /\ \A total : Required(total)' <=> Required(total)
<1>1. HistoryTokens(history)' = HistoryTokens(history)
  OBVIOUS
<1>2. \A n : Estimate(n)' = Estimate(n)
  BY <1>1 DEF Estimate, Reserved
<1>3. \A n, r : Reaches(n, r)' <=> Reaches(n, r)
  BY DEF Reaches
<1>4. Offered' = Offered
  BY <1>2, <1>3 DEF Offered, AutoCompact
<1>5. Prepared' = Prepared
  BY <1>2, <1>4 DEF Prepared
<1> QED
  BY <1>3, <1>5 DEF Required
-----------------------------------------------------------------------------
\* A thread begins idle.
LEMMA BudgetInvInit == BudgetInit => BudgetInv
  BY DEF BudgetInit, BudgetInv

\* A message or a call with its result is added before the next measure.
LEMMA AddingKeepsInv ==
  ASSUME BudgetInv, stage' \in {"idle", "measure"},
         stage' = "measure" => history' # <<>>, history' \in Seq(Messages)
  PROVE  BudgetInv'
  BY DEF BudgetInv

\* The measure compares what the request will hold with the threshold.
LEMMA MeasureKeepsInv == ASSUME BudgetInv, Measure PROVE BudgetInv'
<1>1. /\ stage = "measure" /\ history # <<>> /\ history' = history
      /\ stage' = IF Required(Prepared.total) THEN "compact" ELSE "prepare"
  BY DEF Measure, BudgetInv
<1>2. Prepared' = Prepared /\ \A total : Required(total)' <=> Required(total)
  BY PreparedIsStable DEF Measure
<1>3. CASE Required(Prepared.total)
  BY <1>1, <1>3 DEF BudgetInv
<1>4. CASE ~Required(Prepared.total)
  <2>1. Fits(Prepared.total)'
    BY <1>2, <1>4 DEF Fits
  <2> QED
    BY <1>1, <1>4, <2>1 DEF BudgetInv
<1> QED
  BY <1>3, <1>4

\* A compaction leaves the summary.
LEMMA RuntimeCompactKeepsInv ==
  ASSUME BudgetInv, RuntimeCompact, Summary \in Seq(Messages) PROVE BudgetInv'
<1>1. stage' = "prepare" /\ compacted' /\ history' = Summary
  BY DEF RuntimeCompact
<1> QED
  BY <1>1 DEF BudgetInv, Fits

\* The request holds what was measured.
LEMMA GenerateKeepsInv == ASSUME BudgetInv, Generate PROVE BudgetInv'
<1>1. /\ stage = "prepare" /\ stage' = "answer" /\ request' = Prepared
      /\ history' = history /\ compacted' = compacted
  BY DEF Generate
<1>2. Fits(Prepared.total) /\ ((compacted /\ history = Summary) \/ history # <<>>)
  BY <1>1 DEF BudgetInv
<1>3. \A total : Required(total)' <=> Required(total)
  BY PreparedIsStable DEF Generate
<1>4. Fits(request.total)'
  BY <1>1, <1>2, <1>3 DEF Fits
<1> QED
  BY <1>1, <1>2, <1>4 DEF BudgetInv

\* An unchanged thread fits as before.
LEMMA BudgetStutterKeepsInv ==
  ASSUME BudgetInv, UNCHANGED budgetVars PROVE BudgetInv'
<1>1. Prepared' = Prepared /\ \A total : Required(total)' <=> Required(total)
  BY PreparedIsStable DEF budgetVars
<1>2. \A total : Fits(total)' <=> Fits(total)
  BY <1>1 DEF Fits, budgetVars
<1>3. Fits(Prepared.total)' <=> Fits(Prepared.total)
  BY <1>1 DEF Fits, budgetVars
<1>4. Fits(request.total)' <=> Fits(request.total)
  BY <1>1 DEF Fits, budgetVars
<1> QED
  BY <1>3, <1>4 DEF BudgetInv, budgetVars

\* Every step keeps the invariant.
LEMMA BudgetInvariant ==
  ASSUME Summary \in Seq(Messages), Sizes \subseteq Nat
  PROVE  BudgetSpec => []BudgetInv
<1>1. BudgetInv /\ [BudgetNext]_budgetVars => BudgetInv'
  <2> SUFFICES ASSUME BudgetInv, [BudgetNext]_budgetVars PROVE BudgetInv'
    OBVIOUS
  <2> TextMessages \subseteq Messages /\ CallMessages \subseteq Messages
    BY DEF TextMessages, CallMessages, Message, Messages
  <2> history \in Seq(Messages)
    BY DEF BudgetInv
  <2>1. CASE UNCHANGED budgetVars
    BY <2>1, BudgetStutterKeepsInv
  <2>2. ASSUME NEW m \in TextMessages, BeginLoop(m) PROVE BudgetInv'
    <3>1. history' = Append(history, m) /\ stage' = "measure"
      BY <2>2 DEF BeginLoop
    <3>2. history' \in Seq(Messages) /\ history' # <<>>
      BY <3>1
    <3> QED
      BY <3>1, <3>2, AddingKeepsInv
  <2>3. ASSUME NEW m \in TextMessages, FinalAnswer(m) PROVE BudgetInv'
    <3>1. history' \in Seq(Messages) /\ stage' = "idle"
      BY <2>3 DEF FinalAnswer
    <3> QED
      BY <3>1, AddingKeepsInv
  <2>4. ASSUME NEW c \in {<<>>} \cup {<<m>> : m \in CallMessages},
             NEW m \in TextMessages, FailTurn(c, m)
        PROVE  BudgetInv'
    <3>1. c \in Seq(Messages)
      <4>1. ASSUME NEW n \in CallMessages PROVE <<n>> \in Seq(Messages)
        OBVIOUS
      <4>2. <<>> \in Seq(Messages)
        OBVIOUS
      <4> QED
        BY <4>1, <4>2
    <3>2. history' \in Seq(Messages) /\ stage' = "idle"
      BY <2>4, <3>1 DEF FailTurn
    <3> QED
      BY <3>2, AddingKeepsInv
  <2>5. ASSUME NEW m \in CallMessages, NEW r \in TextMessages, NEW size \in ToolSizes,
               ToolRound(m, r, size)
        PROVE  BudgetInv'
    <3>1. history' = history \o <<m, r>> /\ stage' = "measure"
      BY <2>5 DEF ToolRound
    <3>2. <<m, r>> \in Seq(Messages) /\ Len(<<m, r>>) = 2
      OBVIOUS
    <3>3. history' \in Seq(Messages) /\ Len(history') = Len(history) + 2
      BY <3>1, <3>2
    <3> QED
      BY <3>1, <3>3, AddingKeepsInv
  <2>6. ASSUME NEW m \in CallMessages, NEW r \in TextMessages, NEW works \in BOOLEAN,
               CallCompact(m, r, works)
        PROVE  BudgetInv'
    <3>1. PICK h \in Seq(Messages) : history' = Append(h, r) /\ stage' = "measure"
      <4>1. Append(history, m) \in Seq(Messages)
        OBVIOUS
      <4> QED
        BY <2>6, <4>1 DEF CallCompact
    <3>2. history' \in Seq(Messages) /\ history' # <<>>
      BY <3>1
    <3> QED
      BY <3>1, <3>2, AddingKeepsInv
  <2>7. CASE CompactionFails
    BY <2>7, AddingKeepsInv DEF CompactionFails
  <2>8. CASE ClearBudget
    BY <2>8, AddingKeepsInv DEF ClearBudget, BudgetInv
  <2> QED
    BY <2>1, <2>2, <2>3, <2>4, <2>5, <2>6, <2>7, <2>8, MeasureKeepsInv,
       RuntimeCompactKeepsInv, GenerateKeepsInv DEF BudgetNext
<1> QED
  BY <1>1, BudgetInvInit, PTL DEF BudgetSpec

\* OverBudgetIsCompacted: whatever the thresholds, the reserve and the tools, a
\* request that reaches the runtime threshold holds the summary of a compaction.
THEOREM BudgetOverBudgetIsCompacted ==
  ASSUME Summary \in Seq(Messages), Sizes \subseteq Nat
  PROVE  BudgetSpec => []OverBudgetIsCompacted
<1>1. BudgetInv => OverBudgetIsCompacted
  BY DEF BudgetInv, Fits, Required, OverBudgetIsCompacted
<1> QED
  BY <1>1, BudgetInvariant, PTL
-----------------------------------------------------------------------------
(* The types of the budget.  A fold over a sequence is a function on the sets *)
(* of its places; that it has a value follows by induction over their size.   *)

\* One step of the fold over the places of a history.
FoldStep(h, g) ==
  [S \in SUBSET DOMAIN h |->
     IF S = {} THEN 0
     ELSE LET i == CHOOSE i \in S : TRUE IN MessageTokens(h[i]) + g[S \ {i}]]

\* The tokens of a message are a number.
LEMMA MessageTokensType == ASSUME NEW m \in Messages PROVE MessageTokens(m) \in Nat
<1>1. \A n \in Nat : Div4(n) \in Nat
  BY DEF Div4
<1> QED
  BY <1>1 DEF MessageTokens, Messages

\* HistoryTokens is the last value of the fold that its definition chooses.
LEMMA HistoryTokensFold ==
  ASSUME NEW h
  PROVE  HistoryTokens(h) = (CHOOSE g : g = FoldStep(h, g))[DOMAIN h]
  BY DEF HistoryTokens, FoldSeq, FoldFunction, FoldFunctionOnSet, MapThenFoldSet, FoldStep

\* The subsets of a sequence's places lose an element with each step.
LEMMA PlacesLeft ==
  ASSUME NEW h \in Seq(Messages), NEW S \in SUBSET DOMAIN h
  PROVE  /\ Cardinality(S) \in 0 .. Len(h) /\ (Cardinality(S) = 0 <=> S = {})
         /\ \A i \in S : /\ S \ {i} \in SUBSET DOMAIN h
                         /\ Cardinality(S \ {i}) = Cardinality(S) - 1
<1>1. DOMAIN h = 1 .. Len(h) /\ Len(h) \in Nat
  OBVIOUS
<1>2. IsFiniteSet(DOMAIN h) /\ Cardinality(DOMAIN h) = Len(h)
  <2>1. /\ IsFiniteSet(1 .. Len(h))
        /\ Cardinality(1 .. Len(h)) = IF 1 > Len(h) THEN 0 ELSE Len(h) - 1 + 1
    BY <1>1, FS_Interval
  <2> QED
    BY <1>1, <2>1
<1>3. IsFiniteSet(S) /\ Cardinality(S) <= Len(h)
  BY <1>2, FS_Subset
<1>4. Cardinality(S) \in Nat /\ (Cardinality(S) = 0 <=> S = {})
  BY <1>3, FS_CardinalityType, FS_EmptySet
<1>5. \A i \in S : Cardinality(S \ {i}) = Cardinality(S) - 1
  BY <1>3, FS_RemoveElement
<1> QED
  BY <1>1, <1>3, <1>4, <1>5

\* Nothing is folded to 0.
LEMMA FoldNothing == ASSUME NEW h, NEW g PROVE FoldStep(h, g)[{}] = 0
<1>1. {} \in SUBSET DOMAIN h
  OBVIOUS
<1> QED
  BY <1>1 DEF FoldStep

\* A step of the fold at a set takes one place from it.
LEMMA FoldStepAt ==
  ASSUME NEW h \in Seq(Messages), NEW S \in SUBSET DOMAIN h
  PROVE  \/ S = {} /\ \A g : FoldStep(h, g)[S] = 0
         \/ \E i \in S : /\ MessageTokens(h[i]) \in Nat
                         /\ \A g : FoldStep(h, g)[S] = MessageTokens(h[i]) + g[S \ {i}]
<1>1. CASE S = {}
  BY <1>1 DEF FoldStep
<1>2. CASE S # {}
  <2> DEFINE i == CHOOSE i \in S : TRUE
  <2>1. i \in S
    BY <1>2
  <2>2. \A g : FoldStep(h, g)[S] = MessageTokens(h[i]) + g[S \ {i}]
    BY <1>2 DEF FoldStep
  <2> HIDE DEF i
  <2>3. MessageTokens(h[i]) \in Nat
    BY <2>1, MessageTokensType
  <2> QED
    BY <2>1, <2>2, <2>3
<1> QED
  BY <1>1, <1>2

\* g folds the sets of at most n places.
FoldsTo(h, n, g) ==
  \A S \in SUBSET DOMAIN h : Cardinality(S) <= n => g[S] = FoldStep(h, g)[S]

\* The fold has a solution, whatever the history.
LEMMA FoldExists ==
  ASSUME NEW h \in Seq(Messages)
  PROVE  \E g : g = FoldStep(h, g)
<1> DEFINE P == {n \in Nat : \E f \in [SUBSET DOMAIN h -> Nat] : FoldsTo(h, n, f)}
<1>1. \A g \in [SUBSET DOMAIN h -> Nat] : FoldStep(h, g) \in [SUBSET DOMAIN h -> Nat]
  <2> SUFFICES ASSUME NEW g \in [SUBSET DOMAIN h -> Nat]
               PROVE  FoldStep(h, g) \in [SUBSET DOMAIN h -> Nat]
    OBVIOUS
  <2>1. \A S \in SUBSET DOMAIN h : FoldStep(h, g)[S] \in Nat
    <3> SUFFICES ASSUME NEW S \in SUBSET DOMAIN h PROVE FoldStep(h, g)[S] \in Nat
      OBVIOUS
    <3>1. ASSUME NEW i \in S, MessageTokens(h[i]) \in Nat,
                 \A f : FoldStep(h, f)[S] = MessageTokens(h[i]) + f[S \ {i}]
          PROVE  FoldStep(h, g)[S] \in Nat
      <4>1. FoldStep(h, g)[S] = MessageTokens(h[i]) + g[S \ {i}]
        BY <3>1, Zenon
      <4>2. g[S \ {i}] \in Nat
        BY PlacesLeft
      <4> QED
        BY <3>1, <4>1, <4>2
    <3>2. CASE S = {}
      BY <3>2, FoldNothing
    <3> QED
      BY <3>1, <3>2, FoldStepAt
  <2> QED
    BY <2>1, Zenon DEF FoldStep
<1>2. 0 \in P
  <2> DEFINE g == [S \in SUBSET DOMAIN h |-> 0]
  <2>1. g \in [SUBSET DOMAIN h -> Nat]
    OBVIOUS
  <2>2. FoldsTo(h, 0, g)
    <3> SUFFICES ASSUME NEW S \in SUBSET DOMAIN h, Cardinality(S) <= 0
                 PROVE  g[S] = FoldStep(h, g)[S]
      BY DEF FoldsTo
    <3>1. S = {}
      BY PlacesLeft
    <3>2. FoldStep(h, g)[S] = 0
      BY <3>1, FoldNothing
    <3> QED
      BY <3>2
  <2> HIDE DEF g
  <2> QED
    BY <2>1, <2>2
<1>3. ASSUME NEW n \in P PROVE n + 1 \in P
  <2>1. PICK g \in [SUBSET DOMAIN h -> Nat] : FoldsTo(h, n, g)
    OBVIOUS
  <2> DEFINE k == FoldStep(h, g)
  <2>2. k \in [SUBSET DOMAIN h -> Nat]
    BY <1>1
  <2>3. FoldsTo(h, n + 1, k)
    <3> HIDE DEF k
    <3> SUFFICES ASSUME NEW S \in SUBSET DOMAIN h, Cardinality(S) <= n + 1
                 PROVE  k[S] = FoldStep(h, k)[S]
      BY DEF FoldsTo
    <3>1. k[S] = FoldStep(h, g)[S]
      BY DEF k
    <3>2. CASE S = {}
      BY <3>1, <3>2, FoldStepAt
    <3>3. ASSUME NEW i \in S,
                 \A f : FoldStep(h, f)[S] = MessageTokens(h[i]) + f[S \ {i}]
          PROVE  k[S] = FoldStep(h, k)[S]
      <4>1. /\ S \ {i} \in SUBSET DOMAIN h
            /\ Cardinality(S \ {i}) = Cardinality(S) - 1 /\ Cardinality(S) \in Nat
        BY PlacesLeft
      <4>2. n \in Nat /\ Cardinality(S \ {i}) <= n
        BY <4>1
      <4>3. k[S \ {i}] = g[S \ {i}]
        BY <2>1, <4>1, <4>2 DEF k, FoldsTo
      <4> QED
        BY <3>1, <3>3, <4>3
    <3> QED
      BY <3>2, <3>3, FoldStepAt
  <2> HIDE DEF k
  <2>4. n + 1 \in Nat
    OBVIOUS
  <2>5. \E f \in [SUBSET DOMAIN h -> Nat] : FoldsTo(h, n + 1, f)
    BY <2>2, <2>3
  <2> QED
    BY <2>4, <2>5, Zenon
<1>4. Len(h) \in P
  <2>1. P \in SUBSET Nat
    OBVIOUS
  <2>2. Len(h) \in Nat
    OBVIOUS
  <2> HIDE DEF P
  <2> QED
    BY <1>2, <1>3, <2>1, <2>2, SetInduction
<1>5. PICK g \in [SUBSET DOMAIN h -> Nat] : FoldsTo(h, Len(h), g)
  BY <1>4
<1>6. \A S \in SUBSET DOMAIN h : g[S] = FoldStep(h, g)[S]
  <2>1. \A S \in SUBSET DOMAIN h : Cardinality(S) <= Len(h)
    BY PlacesLeft
  <2> QED
    BY <1>5, <2>1 DEF FoldsTo
<1>7. FoldStep(h, g) \in [SUBSET DOMAIN h -> Nat]
  BY <1>1
<1>8. g = FoldStep(h, g)
  <2> DEFINE k == FoldStep(h, g)
  <2>1. k \in [SUBSET DOMAIN h -> Nat] /\ \A S \in SUBSET DOMAIN h : g[S] = k[S]
    BY <1>6, <1>7
  <2> HIDE DEF k
  <2>2. g = k
    BY <2>1
  <2> QED
    BY <2>2 DEF k
<1> QED
  BY <1>8

\* The tokens of a history are a number.
LEMMA HistoryTokensType ==
  ASSUME NEW h \in Seq(Messages)
  PROVE  HistoryTokens(h) \in Nat
<1> DEFINE fold == CHOOSE g : g = FoldStep(h, g)
           P == {n \in Nat : \A S \in SUBSET DOMAIN h :
                              Cardinality(S) <= n => fold[S] \in Nat}
<1>1. fold = FoldStep(h, fold)
  BY FoldExists
<1> HIDE DEF fold
<1>2. 0 \in P
  <2>1. \A S \in SUBSET DOMAIN h : Cardinality(S) <= 0 => S = {}
    BY PlacesLeft
  <2>2. FoldStep(h, fold)[{}] = 0
    BY FoldNothing
  <2>3. fold[{}] = 0
    BY <1>1, <2>2
  <2>4. ASSUME NEW S \in SUBSET DOMAIN h, Cardinality(S) <= 0 PROVE fold[S] \in Nat
    <3>1. S = {}
      BY <2>1, <2>4
    <3>2. fold[S] = 0
      BY <2>3, <3>1
    <3> QED
      BY <3>2
  <2> QED
    BY <2>4
<1>3. ASSUME NEW n \in P PROVE n + 1 \in P
  <2> SUFFICES ASSUME NEW S \in SUBSET DOMAIN h, Cardinality(S) <= n + 1
               PROVE  fold[S] \in Nat
    OBVIOUS
  <2>1. ASSUME NEW i \in S PROVE fold[S \ {i}] \in Nat
    <3>1. /\ S \ {i} \in SUBSET DOMAIN h
          /\ Cardinality(S \ {i}) = Cardinality(S) - 1 /\ Cardinality(S) \in Nat
      BY <2>1, PlacesLeft
    <3>2. n \in Nat /\ Cardinality(S \ {i}) <= n
      BY <3>1
    <3> QED
      BY <1>3, <3>1, <3>2
  <2>2. CASE S = {}
    BY <1>1, <2>2, FoldNothing
  <2>3. ASSUME NEW i \in S, MessageTokens(h[i]) \in Nat,
               \A f : FoldStep(h, f)[S] = MessageTokens(h[i]) + f[S \ {i}]
        PROVE  fold[S] \in Nat
    <3>1. FoldStep(h, fold)[S] = MessageTokens(h[i]) + fold[S \ {i}]
      BY <2>3, Zenon
    <3>2. fold[S \ {i}] \in Nat
      BY <2>1, <2>3
    <3>3. fold[S] = FoldStep(h, fold)[S]
      BY <1>1
    <3> QED
      BY <2>3, <3>1, <3>2, <3>3
  <2> QED
    BY <2>2, <2>3, FoldStepAt
<1>4. Len(h) \in P
  <2>1. P \in SUBSET Nat
    OBVIOUS
  <2>2. Len(h) \in Nat
    OBVIOUS
  <2> HIDE DEF P
  <2> QED
    BY <1>2, <1>3, <2>1, <2>2, SetInduction
<1>5. fold[DOMAIN h] \in Nat
  <2>1. DOMAIN h \in SUBSET DOMAIN h
    OBVIOUS
  <2>2. Cardinality(DOMAIN h) <= Len(h)
    BY <2>1, PlacesLeft
  <2> QED
    BY <1>4, <2>1, <2>2
<1> QED
  BY <1>5, HistoryTokensFold DEF fold

\* The limits of a configuration are numbers.
SettingsTyped ==
  settings.llm.output \subseteq Nat /\ settings.compact.reserved \subseteq Nat

\* What is estimated, measured and offered are numbers and answers.
LEMMA PreparedType ==
  ASSUME BudgetInv, SettingsTyped, ToolSizes \subseteq Nat, tools \in ToolSizes,
         CompactTool \in Nat, System \in Nat
  PROVE  Prepared \in [total : Nat, offered : BOOLEAN]
<1>1. \A S : S # {} /\ S \subseteq Nat => The(S) \in Nat
  BY DEF The
<1>2. MaxOutput(settings.llm) \in Nat
  <2>1. KnownOutput(settings.llm.model) \subseteq Nat
    BY DEF KnownOutput
  <2>2. /\ Or(KnownOutput(settings.llm.model), {1024}) \subseteq Nat
        /\ Or(KnownOutput(settings.llm.model), {1024}) # {}
    BY <2>1 DEF Or, Given
  <2> QED
    BY <1>1, <2>2 DEF MaxOutput, Or, Given, SettingsTyped
<1>3. Reserved \in Nat
  BY <1>1, <1>2 DEF Reserved, Or, Given, SettingsTyped
<1>4. HistoryTokens(history) \in Nat
  BY HistoryTokensType DEF BudgetInv
<1>5. \A n \in Nat : Estimate(n) \in Nat
  BY <1>3, <1>4 DEF Estimate
<1>6. Offered \in BOOLEAN
  BY DEF Offered, AutoCompact, Reaches
<1>7. tools + (IF Offered THEN CompactTool ELSE 0) \in Nat
  OBVIOUS
<1> QED
  BY <1>5, <1>6, <1>7 DEF Prepared

\* The types that are not in BudgetInv.
RequestTyped ==
  /\ override \in SUBSET BOOLEAN /\ tools \in ToolSizes
  /\ request \in [total : Nat, offered : BOOLEAN]

CompactedTyped == compacted \in BOOLEAN

\* The loop and the estimate keep their types (AgentLoop, AutoCompactor,
\* CompactBudget of compact/budget.rs), for any sections, models, sizes and tools
\* whose limits and sizes are numbers.
THEOREM BudgetTypeCorrect ==
  ASSUME Summary \in Seq(Messages), Sizes \subseteq Nat, ToolSizes \subseteq Nat,
         CompactTool \in Nat, System \in Nat,
         \A c \in Sections : c.reserved \subseteq Nat,
         \A m \in Models : m.output \subseteq Nat
  PROVE  BudgetSpec => []BudgetTypeOK
<1>1. BudgetInit => RequestTyped /\ SettingsTyped /\ CompactedTyped
  <2> SUFFICES ASSUME BudgetInit
               PROVE  RequestTyped /\ SettingsTyped /\ CompactedTyped
    OBVIOUS
  <2>1. settings.compact \in Sections /\ settings.llm \in Models
    BY DEF BudgetInit
  <2>2. request \in [total : Nat, offered : BOOLEAN]
    BY DEF BudgetInit, NoRequest
  <2>3. override \in SUBSET BOOLEAN /\ tools \in ToolSizes /\ compacted \in BOOLEAN
    BY Zenon DEF BudgetInit
  <2> QED
    BY <2>1, <2>2, <2>3 DEF RequestTyped, SettingsTyped, CompactedTyped
<1>2. CompactedTyped /\ [BudgetNext]_budgetVars => CompactedTyped'
  BY Zenon
  DEF CompactedTyped, BudgetNext, budgetVars, BeginLoop, FinalAnswer, FailTurn, Measure,
      RuntimeCompact, CompactionFails, Generate, ClearBudget, ToolRound, CallCompact
<1>3. SettingsTyped /\ [BudgetNext]_budgetVars => SettingsTyped'
  <2> SUFFICES ASSUME SettingsTyped, [BudgetNext]_budgetVars PROVE SettingsTyped'
    OBVIOUS
  <2>1. settings' = settings
    BY DEF BudgetNext, budgetVars, BeginLoop, FinalAnswer, FailTurn, Measure,
       RuntimeCompact, CompactionFails, Generate, ClearBudget, ToolRound, CallCompact
  <2> QED
    BY <2>1 DEF SettingsTyped
<1>4. BudgetInv /\ RequestTyped /\ SettingsTyped /\ [BudgetNext]_budgetVars =>
        RequestTyped'
  <2> SUFFICES ASSUME BudgetInv, RequestTyped, SettingsTyped, [BudgetNext]_budgetVars
               PROVE  RequestTyped'
    OBVIOUS
  <2> USE DEF RequestTyped
  <2>1. CASE UNCHANGED budgetVars \/ Measure \/ RuntimeCompact \/ CompactionFails
    BY <2>1 DEF budgetVars, Measure, RuntimeCompact, CompactionFails
  <2>2. CASE Generate
    <3>1. request' = Prepared /\ UNCHANGED <<override, tools>>
      BY <2>2 DEF Generate
    <3>2. Prepared \in [total : Nat, offered : BOOLEAN]
      BY PreparedType
    <3> QED
      BY <3>1, <3>2
  <2>3. CASE ClearBudget
    BY <2>3 DEF ClearBudget
  <2>4. ASSUME NEW m \in TextMessages, BeginLoop(m) \/ FinalAnswer(m)
        PROVE  RequestTyped'
    BY <2>4 DEF BeginLoop, FinalAnswer
  <2>5. ASSUME NEW c \in {<<>>} \cup {<<m>> : m \in CallMessages},
               NEW m \in TextMessages, FailTurn(c, m)
        PROVE  RequestTyped'
    BY <2>5 DEF FailTurn
  <2>6. ASSUME NEW m \in CallMessages, NEW r \in TextMessages, NEW size \in ToolSizes,
               ToolRound(m, r, size)
        PROVE  RequestTyped'
    BY <2>6 DEF ToolRound
  <2>7. ASSUME NEW m \in CallMessages, NEW r \in TextMessages, NEW works \in BOOLEAN,
               CallCompact(m, r, works)
        PROVE  RequestTyped'
    BY <2>7 DEF CallCompact
  <2> QED
    BY <2>1, <2>2, <2>3, <2>4, <2>5, <2>6, <2>7 DEF BudgetNext
<1>5. BudgetInv /\ RequestTyped /\ CompactedTyped => BudgetTypeOK
  BY DEF CompactedTyped, BudgetInv, RequestTyped, BudgetTypeOK, Messages
<1>6. BudgetSpec => []BudgetInv
  BY BudgetInvariant
<1> QED
  BY <1>1, <1>2, <1>3, <1>4, <1>5, <1>6, PTL DEF BudgetSpec
-----------------------------------------------------------------------------
(* The start of the program *)

\* A configuration has its section of servers.
HasServers(c) ==
  /\ c = [f \in DOMAIN c |-> c[f]] /\ "servers" \in DOMAIN c
  /\ c.servers = [n \in DOMAIN c.servers |-> c.servers[n]]

Before == {"logging", "load", "flags", "install"}

\* Nothing is installed, and no server registered, before its phase.
Phased ==
  /\ phase \in Before => ~installed
  /\ phase \in Before \cup {"provider", "hooks"} => registered = NoServers
  /\ phase \in {"store", "channels", "up"} => registered = config.servers

\* The servers agree, where they are known; those of mcp.json are kept.
ServersAgree ==
  /\ HasServers(config)
  /\ DOMAIN registered \subseteq DOMAIN config.servers
  /\ registered = [n \in DOMAIN registered |-> config.servers[n]]
  /\ \A n \in DOMAIN external :
       n \in DOMAIN config.servers /\ config.servers[n] = external[n]

\* What is installed is valid, and only known reasons are left to fail.
InstalledIsValid ==
  /\ installed => Valid(config)
  /\ phase = "failed" /\ installed =>
       why \in Unchecked

StartInv == Phased /\ ServersAgree /\ InstalledIsValid

\* A section that is replaced is the section.
LEMMA ServersReplaced ==
  ASSUME NEW c, NEW S, NEW d, HasServers(c), S = [n \in DOMAIN S |-> S[n]],
         d = [c EXCEPT !.servers = S]
  PROVE  d.servers = S /\ HasServers(d)
<1>1. DOMAIN d = DOMAIN c /\ "servers" \in DOMAIN c /\ d = [f \in DOMAIN d |-> d[f]]
  BY DEF HasServers
<1>2. d.servers = S
  BY <1>1 DEF HasServers
<1> QED
  BY <1>1, <1>2 DEF HasServers

\* The program starts with the default configuration.
LEMMA StartInvInit == StartInit => StartInv
<1> SUFFICES ASSUME StartInit PROVE StartInv
  OBVIOUS
<1>1. config = DefaultConfig /\ external = NoServers /\ registered = NoServers
      /\ phase = "logging" /\ installed = FALSE
  BY DEF StartInit
<1>2. DOMAIN NoServers = {} /\ NoServers = [n \in {} |-> {}]
  BY DEF NoServers
<1>3. DefaultConfig = [f \in DOMAIN DefaultConfig |-> DefaultConfig[f]]
      /\ "servers" \in DOMAIN DefaultConfig /\ DefaultConfig.servers = NoServers
  BY DEF DefaultConfig
<1>4. Phased
  BY <1>1 DEF Phased, Before
<1>5. ServersAgree
  BY <1>1, <1>2, <1>3 DEF ServersAgree, HasServers
<1>6. InstalledIsValid
  BY <1>1 DEF InstalledIsValid
<1> QED
  BY <1>4, <1>5, <1>6 DEF StartInv

\* Before the installation the configuration is read and completed.
LEMMA LoadingKeepsInv ==
  ASSUME \A y \in Yaml : HasServers(y), StartInv,
         \/ \E y \in Yaml : StartLogging(y) \/ RefuseLogging(y)
         \/ \E y \in Yaml, s \in Sidecars : LoadConfig(y, s) \/ RefuseLoad(y, s)
         \/ EnableBuiltinMcp \/ NoBuiltinMcp
  PROVE  StartInv'
<1>1. CASE \/ \E y \in Yaml : StartLogging(y) \/ RefuseLogging(y)
           \/ \E y \in Yaml, s \in Sidecars : RefuseLoad(y, s)
           \/ NoBuiltinMcp
  <2>1. /\ phase \in Before /\ phase' \in {"load", "install", "failed"}
        /\ UNCHANGED <<config, external, installed, registered>>
    BY <1>1 DEF StartLogging, RefuseLogging, RefuseLoad, NoBuiltinMcp, Fails, Before
  <2> QED
    BY <2>1 DEF StartInv, Phased, ServersAgree, InstalledIsValid, Before, HasServers
<1>2. ASSUME NEW y \in Yaml, NEW s \in Sidecars, LoadConfig(y, s) PROVE StartInv'
  <2> DEFINE D == DOMAIN y.servers \cup DOMAIN s
             S == [n \in D |->
                     IF n \in DOMAIN y.servers THEN y.servers[n] ELSE SidecarServers(s)[n]]
  <2>1. /\ config' = [y EXCEPT !.servers = S]
        /\ external' = SidecarServers(s)
        /\ phase = "load" /\ phase' = "flags" /\ UNCHANGED <<installed, registered>>
        /\ DOMAIN y.servers \cap DOMAIN s = {}
    BY <1>2 DEF LoadConfig, Loads, Merged
  <2>2. S = [n \in DOMAIN S |-> S[n]] /\ DOMAIN S = D
    OBVIOUS
  <2>3. DOMAIN SidecarServers(s) = DOMAIN s
    BY DEF SidecarServers
  <2>4. \A n \in DOMAIN s : n \in DOMAIN S /\ S[n] = SidecarServers(s)[n]
    BY <2>1
  <2> HIDE DEF S
  <2>5. config'.servers = S /\ HasServers(config')
    BY <2>1, <2>2, ServersReplaced
  <2>6. registered' = NoServers /\ ~installed'
    BY <2>1 DEF StartInv, Phased, Before
  <2>7. ServersAgree'
    BY <2>1, <2>3, <2>4, <2>5, <2>6 DEF ServersAgree, NoServers
  <2> QED
    BY <2>1, <2>6, <2>7 DEF StartInv, Phased, Before, InstalledIsValid
<1>3. CASE EnableBuiltinMcp
  <2> DEFINE b == Server("stdio", "openjarvis", TRUE)
             S == [n \in DOMAIN config.servers \cup {Builtin} |->
                     IF n = Builtin THEN b ELSE config.servers[n]]
  <2>1. /\ config' = [config EXCEPT !.servers = S]
        /\ external' = [n \in DOMAIN external \ {Builtin} |-> external[n]]
        /\ phase = "flags" /\ phase' = "install" /\ UNCHANGED <<installed, registered>>
    BY <1>3 DEF EnableBuiltinMcp
  <2>2. S = [n \in DOMAIN S |-> S[n]]
    OBVIOUS
  <2>3. \A n \in DOMAIN external \ {Builtin} : n \in DOMAIN S /\ S[n] = external[n]
    BY DEF StartInv, ServersAgree
  <2> HIDE DEF S
  <2>4. config'.servers = S /\ HasServers(config')
    <3>1. HasServers(config)
      BY DEF StartInv, ServersAgree
    <3> QED
      BY <2>1, <2>2, <3>1, ServersReplaced
  <2>5. registered' = NoServers /\ ~installed'
    BY <2>1 DEF StartInv, Phased, Before
  <2>6. ServersAgree'
    BY <2>1, <2>3, <2>4, <2>5 DEF ServersAgree, NoServers
  <2> QED
    BY <2>1, <2>5, <2>6 DEF StartInv, Phased, Before, InstalledIsValid
<1> QED
  BY <1>1, <1>2, <1>3

\* Building the components from what is installed.
LEMMA BuildingKeepsInv ==
  ASSUME StartInv,
         \/ Install \/ BuildProvider \/ RefuseProvider \/ BuildHooks \/ BuildTools
         \/ \E n \in DOMAIN config.servers : RegisterServer(n) \/ RefuseServer(n)
         \/ OpenStore \/ StartChannels \/ EnvironmentFails
  PROVE  StartInv'
<1> USE DEF StartInv, Unchecked
<1>1. CASE Install
  BY <1>1 DEF Install, Phased, ServersAgree, InstalledIsValid, Before, HasServers
<1>2. CASE BuildProvider
  BY <1>2 DEF BuildProvider, Phased, ServersAgree, InstalledIsValid, Before, HasServers
<1>3. ASSUME NEW r \in Unchecked, Fails(r)
      PROVE  StartInv'
  BY <1>3 DEF Fails, Phased, ServersAgree, InstalledIsValid, Before, HasServers
<1>4. CASE RefuseProvider
  <2>1. phase = "provider" /\ (installed => Protocol(config.llm) # "unknown")
    BY <1>4 DEF RefuseProvider, InstalledIsValid, Valid, ValidLLM
  <2>2. CASE Fails("credentials") \/ Fails("model")
    BY <2>2, <1>3
  <2>3. CASE Fails("protocol") /\ ~installed
    BY <2>3 DEF Fails, Phased, ServersAgree, InstalledIsValid, Before, HasServers
  <2> QED
    BY <1>4, <2>1, <2>2, <2>3 DEF RefuseProvider
<1>5. CASE BuildHooks
  <2>1. CASE ValidHooks(config.hooks)
    BY <1>5, <2>1 DEF BuildHooks, Phased, ServersAgree, InstalledIsValid, Before,
       HasServers
  <2>2. CASE ~ValidHooks(config.hooks)
    <3>1. Fails("hooks") /\ ~installed
      BY <1>5, <2>2 DEF BuildHooks, InstalledIsValid, Valid
    <3> QED
      BY <3>1 DEF Fails, Phased, ServersAgree, InstalledIsValid, Before, HasServers
  <2> QED
    BY <2>1, <2>2
<1>6. ASSUME NEW n \in DOMAIN config.servers, RegisterServer(n) PROVE StartInv'
  <2>1. /\ registered' = [m \in DOMAIN registered \cup {n} |-> config.servers[m]]
        /\ phase = "tools" /\ UNCHANGED <<config, external, phase, installed, why>>
    BY <1>6 DEF RegisterServer
  <2>2. DOMAIN registered' = DOMAIN registered \cup {n}
    BY <2>1
  <2>3. ServersAgree'
    BY <2>1, <2>2 DEF ServersAgree, HasServers
  <2> QED
    BY <2>1, <2>3 DEF Phased, InstalledIsValid, Before
<1>7. ASSUME NEW n \in DOMAIN config.servers, RefuseServer(n) PROVE StartInv'
  <2>1. CASE Fails("server name")
    BY <2>1, <1>3
  <2>2. CASE config.servers[n].target = "" /\ Fails("server target")
    <3>1. ~installed
      BY <2>2 DEF InstalledIsValid, Valid, ValidServers
    <3> QED
      BY <2>2, <3>1 DEF Fails, Phased, ServersAgree, InstalledIsValid, Before, HasServers
  <2> QED
    BY <1>7, <2>1, <2>2 DEF RefuseServer
<1>8. CASE BuildTools
  <2>1. DOMAIN registered = DOMAIN config.servers
    BY <1>8 DEF BuildTools, Left, ServersAgree
  <2>2. registered = config.servers
    BY <2>1 DEF ServersAgree, HasServers
  <2> QED
    BY <1>8, <2>2 DEF BuildTools, Phased, ServersAgree, InstalledIsValid, Before,
       HasServers
<1>9. CASE OpenStore
  BY <1>9 DEF OpenStore, Phased, ServersAgree, InstalledIsValid, Before, HasServers
<1>10. CASE StartChannels
  <2>1. CASE Fails("channel")
    BY <2>1, <1>3
  <2>2. CASE phase' = "up" /\ UNCHANGED <<config, external, installed, registered, why>>
    BY <1>10, <2>2 DEF StartChannels, Phased, ServersAgree, InstalledIsValid, Before,
       HasServers
  <2> QED
    BY <1>10, <2>1, <2>2 DEF StartChannels
<1>11. CASE EnvironmentFails
  BY <1>11, <1>3 DEF EnvironmentFails
<1> QED
  BY <1>1, <1>2, <1>4, <1>5, <1>6, <1>7, <1>8, <1>9, <1>10, <1>11

\* The inductive invariant holds in every reachable state.
LEMMA StartInvariant ==
  ASSUME \A y \in Yaml : HasServers(y)
  PROVE  StartSpec => []StartInv
<1>1. StartInv /\ [StartNext]_startVars => StartInv'
  <2> SUFFICES ASSUME StartInv, [StartNext]_startVars PROVE StartInv'
    OBVIOUS
  <2>1. CASE UNCHANGED startVars
    BY <2>1 DEF startVars, StartInv, Phased, ServersAgree, InstalledIsValid, HasServers
  <2>2. CASE StartNext
    BY <2>2, LoadingKeepsInv, BuildingKeepsInv DEF StartNext
  <2> QED
    BY <2>1, <2>2
<1> QED
  BY <1>1, StartInvInit, PTL DEF StartSpec

\* The start goes from phase to phase, or fails, and registers no server that is
\* not configured (McpManager::load_definitions).
THEOREM StartTypeCorrect ==
  ASSUME \A y \in Yaml : HasServers(y)
  PROVE  StartSpec => []StartTypeOK
<1> DEFINE Typed ==
      /\ phase \in Before \cup {"provider", "hooks", "tools", "store", "channels", "up",
                                "failed"}
      /\ installed \in BOOLEAN
<1>1. StartInit => Typed
  BY DEF StartInit, Before
<1>2. Typed /\ [StartNext]_startVars => Typed'
  <2> SUFFICES ASSUME Typed, [StartNext]_startVars PROVE Typed'
    OBVIOUS
  <2> USE DEF Before
  <2>1. CASE UNCHANGED startVars
    BY <2>1 DEF startVars
  <2>2. ASSUME NEW y \in Yaml, StartLogging(y) \/ RefuseLogging(y) PROVE Typed'
    BY <2>2 DEF StartLogging, RefuseLogging, Fails
  <2>3. ASSUME NEW y \in Yaml, NEW s \in Sidecars, LoadConfig(y, s) \/ RefuseLoad(y, s)
        PROVE  Typed'
    BY <2>3 DEF LoadConfig, RefuseLoad, Fails
  <2>4. CASE EnableBuiltinMcp \/ NoBuiltinMcp \/ Install
    BY <2>4 DEF EnableBuiltinMcp, NoBuiltinMcp, Install
  <2>5. CASE BuildProvider \/ RefuseProvider \/ BuildHooks
    BY <2>5 DEF BuildProvider, RefuseProvider, BuildHooks, Fails
  <2>6. ASSUME NEW n \in DOMAIN config.servers, RegisterServer(n) \/ RefuseServer(n)
        PROVE  Typed'
    BY <2>6 DEF RegisterServer, RefuseServer, Fails
  <2>7. CASE BuildTools \/ OpenStore \/ StartChannels \/ EnvironmentFails
    BY <2>7 DEF BuildTools, OpenStore, StartChannels, EnvironmentFails, Fails
  <2> HIDE DEF Typed
  <2> QED
    BY <2>1, <2>2, <2>3, <2>4, <2>5, <2>6, <2>7 DEF StartNext
<1>3. Typed /\ StartInv => StartTypeOK
  BY DEF StartInv, ServersAgree, StartTypeOK, Before
<1> HIDE DEF Typed
<1> QED
  BY <1>1, <1>2, <1>3, StartInvariant, PTL DEF StartSpec

\* A component refuses what was installed only for a reason that validate does
\* not look at, and a program that is up has the servers of its files
\* (AppConfig::validate, from_yaml_path, McpManager::load_definitions), for any
\* files and any sequence of flags and failures.
THEOREM StartInstalledIsAccepted ==
  ASSUME \A y \in Yaml : HasServers(y)
  PROVE  StartSpec => []InstalledIsAccepted
<1>1. StartInv => InstalledIsAccepted
  <2> SUFFICES ASSUME StartInv PROVE InstalledIsAccepted
    OBVIOUS
  <2>1. phase = "up" => registered = config.servers
    BY DEF StartInv, Phased
  <2>2. \A n \in DOMAIN external : config.servers[n] = external[n]
    BY DEF StartInv, ServersAgree
  <2> QED
    BY <2>1, <2>2 DEF StartInv, InstalledIsValid, InstalledIsAccepted
<1> QED
  BY <1>1, StartInvariant, PTL
=============================================================================
