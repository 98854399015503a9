------------------------- MODULE SelectorAudit_proofs -------------------------
(***************************************************************************)
(* Proofs about SelectorAudit: the binary search finds the manager's block *)
(* on a chain of any height; so an audit reports on exactly what was       *)
(* mapped when it read the head of the chain, whatever it interleaves with *)
(* and however long the log is; and a migration that is run to its end     *)
(* leaves nothing stale. What is assumed: a start block given by a         *)
(* variable does not lie after the manager's own block (EnvIsEarly).       *)
(***************************************************************************)
EXTENDS SelectorAudit, FiniteSetTheorems, WellFoundedInduction, TLAPS

\* The events up to a block, and those a scan has fetched.
UpTo(block) == {i \in DOMAIN log : BlockOf(i) <= block}
Fetched == {i \in DOMAIN log : from <= BlockOf(i) /\ BlockOf(i) < cursor[log[i].kind]}

\* The manager's mappings are the replay of its whole log.
MappedIsReplay == mapped = Replayed(log, DOMAIN log)

\* The scan: its cursors stand between from and latest + 1, and it holds the
\* events that they have passed.
ScanInv ==
  /\ from <= latest
  /\ \A kind \in Kinds : from <= cursor[kind]
  /\ snapshot = Replayed(log, UpTo(latest))
  /\ got = Fetched

ReportInv ==
  /\ \A kind \in Kinds : cursor[kind] = latest + 1
  /\ seen = {k \in Replayed(log, got) : k[1] \in scope}

IInv ==
  /\ TypeOK
  /\ MappedIsReplay
  /\ pc # "idle" => ScanInv
  /\ pc = "reported" => ReportInv

-----------------------------------------------------------------------------
\* The elements of a sequence, and its positions.
LEMMA Elements ==
  ASSUME NEW S, NEW l \in Seq(S)
  PROVE  /\ Len(l) \in Nat
         /\ \A i \in DOMAIN l : i \in Nat /\ 1 <= i /\ i <= Len(l) /\ l[i] \in S
<1>1. Len(l) \in Nat /\ DOMAIN l = 1 .. Len(l)
  OBVIOUS
<1>2. \A i \in 1 .. Len(l) : l[i] \in S
  OBVIOUS
<1> QED BY <1>1, <1>2

\* Later events do not change the replay of earlier ones.
LEMMA ReplayOfPrefix ==
  ASSUME NEW K, NEW l \in Seq([kind : Kinds, key : K]), NEW e,
         NEW D \in SUBSET DOMAIN l
  PROVE  Replayed(Append(l, e), D) = Replayed(l, D)
<1>1. \A i \in D : Append(l, e)[i] = l[i]
  OBVIOUS
<1> QED BY <1>1 DEF Replayed

\* An addition at the end of the log adds its key to the replay.
LEMMA ReplayOfAdd ==
  ASSUME NEW K, NEW l \in Seq([kind : Kinds, key : K]), NEW k \in K
  PROVE  Replayed(Append(l, Event("add", k)), DOMAIN Append(l, Event("add", k)))
           = Replayed(l, DOMAIN l) \cup {k}
<1> DEFINE e == Event("add", k)  a == Append(l, e)  n == Len(l) + 1
<1>1. /\ n \in Nat /\ DOMAIN l = 1 .. Len(l) /\ DOMAIN a = DOMAIN l \cup {n}
      /\ a[n] = e /\ \A i \in DOMAIN l : a[i] = l[i] /\ i < n
  BY DEF Event, Kinds
<1>2. e.kind = "add" /\ e.key = k /\ \A x : e # Event("remove", x)
  BY DEF Event
<1>3. \A x : x \in Replayed(a, DOMAIN a) <=> x \in Replayed(l, DOMAIN l) \cup {k}
  <2> TAKE x
  <2>1. CASE x = k
    <3>1. \A m \in DOMAIN a : ~(m > n)
      BY <1>1
    <3>2. n \in {i \in DOMAIN a : /\ a[i].kind = "add"
                                   /\ \A m \in DOMAIN a : m > i => a[m] # Event("remove", a[i].key)}
      BY <1>1, <1>2, <3>1
    <3> QED BY <1>1, <1>2, <2>1, <3>2 DEF Replayed
  <2>2. ASSUME x # k, x \in Replayed(a, DOMAIN a) PROVE x \in Replayed(l, DOMAIN l)
    <3>1. PICK i \in DOMAIN a : /\ a[i].kind = "add" /\ x = a[i].key
                                /\ \A m \in DOMAIN a : m > i => a[m] # Event("remove", a[i].key)
      BY <2>2 DEF Replayed
    <3>2. i \in DOMAIN l
      BY <1>1, <1>2, <2>2, <3>1
    <3> QED BY <1>1, <3>1, <3>2 DEF Replayed
  <2>3. ASSUME x \in Replayed(l, DOMAIN l) PROVE x \in Replayed(a, DOMAIN a)
    <3>1. PICK i \in DOMAIN l : /\ l[i].kind = "add" /\ x = l[i].key
                                /\ \A m \in DOMAIN l : m > i => l[m] # Event("remove", l[i].key)
      BY <2>3 DEF Replayed
    <3>2. \A m \in DOMAIN a : m > i => a[m] # Event("remove", a[i].key)
      BY <1>1, <1>2, <3>1
    <3> QED BY <1>1, <3>1, <3>2 DEF Replayed
  <2> QED BY <2>1, <2>2, <2>3
<1> QED BY <1>3

\* A removal at the end of the log takes its key out of the replay.
LEMMA ReplayOfRemove ==
  ASSUME NEW K, NEW l \in Seq([kind : Kinds, key : K]), NEW k \in K
  PROVE  Replayed(Append(l, Event("remove", k)), DOMAIN Append(l, Event("remove", k)))
           = Replayed(l, DOMAIN l) \ {k}
<1> DEFINE e == Event("remove", k)  a == Append(l, e)  n == Len(l) + 1
<1>1. /\ n \in Nat /\ DOMAIN l = 1 .. Len(l) /\ DOMAIN a = DOMAIN l \cup {n}
      /\ a[n] = e /\ \A i \in DOMAIN l : a[i] = l[i] /\ i < n
  BY DEF Event, Kinds
<1>2. e.kind = "remove" /\ \A x : x # k => e # Event("remove", x)
  BY DEF Event
<1>3. \A x : x \in Replayed(a, DOMAIN a) <=> x \in Replayed(l, DOMAIN l) \ {k}
  <2> TAKE x
  <2>1. ASSUME x \in Replayed(a, DOMAIN a) PROVE x \in Replayed(l, DOMAIN l) /\ x # k
    <3>1. PICK i \in DOMAIN a : /\ a[i].kind = "add" /\ x = a[i].key
                                /\ \A m \in DOMAIN a : m > i => a[m] # Event("remove", a[i].key)
      BY <2>1 DEF Replayed
    <3>2. i \in DOMAIN l
      BY <1>1, <1>2, <3>1
    <3>3. x # k
      BY <1>1, <3>1, <3>2
    <3> QED BY <1>1, <3>1, <3>2, <3>3 DEF Replayed
  <2>2. ASSUME x \in Replayed(l, DOMAIN l), x # k PROVE x \in Replayed(a, DOMAIN a)
    <3>1. PICK i \in DOMAIN l : /\ l[i].kind = "add" /\ x = l[i].key
                                /\ \A m \in DOMAIN l : m > i => l[m] # Event("remove", l[i].key)
      BY <2>2 DEF Replayed
    <3>2. \A m \in DOMAIN a : m > i => a[m] # Event("remove", a[i].key)
      BY <1>1, <1>2, <2>2, <3>1
    <3> QED BY <1>1, <3>1, <3>2 DEF Replayed
  <2> QED BY <2>1, <2>2
<1> QED BY <1>3

-----------------------------------------------------------------------------
\* Type correctness, operation by operation.
LEMMA InitType == Init => TypeOK
<1> SUFFICES ASSUME Init PROVE TypeOK
  OBVIOUS
<1>1. log = << >> /\ log \in Seq([kind : Kinds, key : Mapping]) /\ Len(log) = 0
  BY DEF Init
<1>2. latest <= HeadBlock
  BY <1>1, AuditAssumption DEF Init, HeadBlock
<1>3. cursor \in [Kinds -> 0 .. latest + 1]
  BY DEF Init
<1>4. abi \in [Artifact -> SUBSET Selector] /\ script \in [Target -> SUBSET Selector]
  BY AuditAssumption DEF Init
<1> QED BY <1>1, <1>2, <1>3, <1>4 DEF Init, TypeOK

LEMMA SourceType ==
  ASSUME TypeOK, NEW a \in Artifact, NEW t \in Target, NEW s \in Selector,
         EditAbi(a, s) \/ EditScript(t, s)
  PROVE  TypeOK'
<1>1. /\ UNCHANGED <<chain, audit, file, todo, progress>>
      /\ edits' = edits + 1 /\ quiet' = FALSE /\ HeadBlock' = HeadBlock
  BY DEF EditAbi, EditScript, chain, HeadBlock
<1>2. abi' \in [Artifact -> SUBSET Selector] /\ script' \in [Target -> SUBSET Selector]
  <2>1. CASE EditAbi(a, s)
    BY <2>1 DEF EditAbi, TypeOK
  <2>2. CASE EditScript(t, s)
    BY <2>2 DEF EditScript, TypeOK
  <2> QED BY <2>1, <2>2
<1>3. edits' \in Nat
  BY <1>1 DEF TypeOK
<1> QED BY <1>1, <1>2, <1>3 DEF TypeOK, chain, audit

LEMMA ChainType ==
  ASSUME TypeOK, NEW kind \in Kinds, NEW k \in Mapping, Emit(kind, k),
         mapped' \subseteq Mapping, UNCHANGED <<code, audit, file>>,
         todo' \subseteq Mapping, progress' \in {"none", "written", "running", "done"},
         quiet' \in BOOLEAN
  PROVE  TypeOK'
<1>1. Event(kind, k) \in [kind : Kinds, key : Mapping]
  BY DEF Event
<1>2. /\ log' \in Seq([kind : Kinds, key : Mapping])
      /\ DOMAIN log \subseteq DOMAIN log' /\ Len(log') = Len(log) + 1
  BY <1>1 DEF TypeOK, Emit
<1>3. Len(log) \in Nat
  BY DEF TypeOK
<1> QED BY <1>2, <1>3, AuditAssumption DEF TypeOK, HeadBlock, code, audit

LEMMA BeginType ==
  ASSUME TypeOK, NEW migrate \in BOOLEAN, NEW filter \in Filters, NEW start, Begin(migrate, filter, start)
  PROVE  TypeOK' /\ start \in Nat /\ start <= latest' /\ latest' \in Nat
<1>1. HeadBlock \in Nat /\ HeadBlock' = HeadBlock
  BY AuditAssumption DEF TypeOK, HeadBlock, Begin, chain
<1>2. start \in Nat /\ start <= latest' /\ latest' \in Nat
  BY <1>1 DEF Begin
<1>3. filter \subseteq Target
  BY AuditAssumption DEF Filters
<1>4. cursor' \in [Kinds -> 0 .. latest' + 1]
  BY <1>2 DEF Begin
<1> QED BY <1>1, <1>2, <1>3, <1>4 DEF TypeOK, Begin, chain, code

LEMMA FetchType ==
  ASSUME TypeOK, NEW kind \in Kinds, Fetch(kind)
  PROVE  /\ TypeOK'
         /\ \E to \in Nat : /\ cursor[kind] <= to /\ to <= latest
                            /\ cursor' = [cursor EXCEPT ![kind] = to + 1]
                            /\ got' = got \cup {i \in DOMAIN log : /\ log[i].kind = kind
                                                                   /\ BlockOf(i) \in cursor[kind] .. to}
<1> DEFINE to == IF cursor[kind] + ChunkSize - 1 > latest THEN latest ELSE cursor[kind] + ChunkSize - 1
<1>1. to \in Nat /\ cursor[kind] <= to /\ to <= latest /\ cursor[kind] \in Nat
  BY AuditAssumption DEF TypeOK, Fetch
<1>2. /\ cursor' = [cursor EXCEPT ![kind] = to + 1]
      /\ got' = got \cup {i \in DOMAIN log : log[i].kind = kind /\ BlockOf(i) \in cursor[kind] .. to}
  BY DEF Fetch
<1> HIDE DEF to
<1>3. cursor' \in [Kinds -> 0 .. latest + 1]
  <2>1. to + 1 \in 0 .. latest + 1 /\ latest \in Nat
    BY <1>1 DEF TypeOK
  <2> QED BY <2>1, <1>2 DEF TypeOK
<1>4. got' \subseteq DOMAIN log
  BY <1>2 DEF TypeOK
<1>5. TypeOK'
  BY <1>3, <1>4 DEF TypeOK, Fetch, chain, code, migration, HeadBlock
<1> QED BY <1>1, <1>2, <1>5

\* A replay holds mappings only.
LEMMA ReplayType ==
  ASSUME NEW K, NEW l \in Seq([kind : Kinds, key : K]), NEW D \in SUBSET DOMAIN l
  PROVE  Replayed(l, D) \subseteq K
<1>1. \A i \in D : l[i] \in [kind : Kinds, key : K]
  BY Elements
<1>2. \A i \in D : l[i].key \in K
  BY <1>1
<1> QED BY <1>2 DEF Replayed

LEMMA ReportType ==
  ASSUME TypeOK, Report
  PROVE  TypeOK'
<1>1. seen' \subseteq Mapping
  BY ReplayType DEF TypeOK, Report
<1>2. stale' \subseteq seen'
  BY DEF Report, StaleOf
<1>3. file' \subseteq Mapping /\ progress' \in {"none", "written", "running", "done"}
  BY <1>1, <1>2 DEF TypeOK, Report
<1> QED BY <1>1, <1>2, <1>3 DEF TypeOK, Report, chain, code, HeadBlock

LEMMA FileType ==
  ASSUME TypeOK, RunFile \/ StopFile
  PROVE  TypeOK'
BY DEF TypeOK, RunFile, StopFile, chain, code, audit, HeadBlock

-----------------------------------------------------------------------------
\* An event at the end of the log, with the mappings changed accordingly,
\* keeps the invariant: a scan does not see it.
LEMMA EmitKeeps ==
  ASSUME IInv, TypeOK', NEW kind \in Kinds, NEW k \in Mapping, Emit(kind, k),
         mapped' = (IF kind = "add" THEN mapped \cup {k} ELSE mapped \ {k}),
         UNCHANGED audit
  PROVE  IInv'
<1> DEFINE e == Event(kind, k)
<1>1. log \in Seq([kind : Kinds, key : Mapping]) /\ log' = Append(log, e)
  BY DEF IInv, TypeOK, Emit
<1>2. MappedIsReplay'
  <2>1. CASE kind = "add"
    BY <1>1, <2>1, ReplayOfAdd DEF IInv, MappedIsReplay
  <2>2. CASE kind = "remove"
    BY <1>1, <2>2, ReplayOfRemove DEF IInv, MappedIsReplay
  <2> QED BY <2>1, <2>2 DEF Kinds
<1>3. /\ DOMAIN log' = DOMAIN log \cup {Len(log) + 1} /\ Len(log) \in Nat
      /\ \A i \in DOMAIN log : log'[i] = log[i] /\ i \in Nat
  BY <1>1
<1>4. latest < BlockOf(Len(log) + 1) /\ latest \in Nat /\ BlockOf(Len(log) + 1) \in Nat
  BY <1>3, AuditAssumption DEF IInv, TypeOK, HeadBlock, BlockOf
<1>5. UpTo(latest)' = UpTo(latest)
  BY <1>3, <1>4 DEF UpTo, BlockOf, audit
<1>6. ASSUME pc # "idle" PROVE ScanInv'
  <2>1. ScanInv
    BY <1>6 DEF IInv
  <2>2. Replayed(log', UpTo(latest)) = Replayed(log, UpTo(latest))
    <3>1. UpTo(latest) \in SUBSET DOMAIN log
      BY DEF UpTo
    <3> QED BY <1>1, <3>1, ReplayOfPrefix
  <2>3. snapshot' = Replayed(log', UpTo(latest)')
    BY <1>5, <2>1, <2>2 DEF ScanInv, audit
  <2>4. Fetched' = Fetched
    <3>1. \A x \in Kinds : ~(BlockOf(Len(log) + 1) < cursor[x])
      <4>1. \A x \in Kinds : cursor[x] \in 0 .. latest + 1
        BY DEF IInv, TypeOK
      <4> QED BY <1>4, <4>1
    <3>2. log'[Len(log) + 1].kind \in Kinds
      BY <1>1 DEF Event
    <3> QED BY <1>3, <3>1, <3>2 DEF Fetched, audit, BlockOf
  <2> QED BY <2>1, <2>3, <2>4 DEF ScanInv, audit
<1>7. ASSUME pc = "reported" PROVE ReportInv'
  <2>1. ReportInv /\ got \in SUBSET DOMAIN log
    BY <1>7 DEF IInv, TypeOK
  <2>2. Replayed(log', got) = Replayed(log, got)
    BY <1>1, <2>1, ReplayOfPrefix
  <2> QED BY <2>1, <2>2 DEF ReportInv, audit
<1> QED BY <1>2, <1>6, <1>7 DEF IInv, audit

-----------------------------------------------------------------------------
\* The invariant, operation by operation.
LEMMA FetchKeeps ==
  ASSUME IInv, NEW kind \in Kinds, Fetch(kind)
  PROVE  IInv'
<1>1. /\ TypeOK'
      /\ pc = "fetching" /\ ScanInv
      /\ UNCHANGED <<chain, pc, from, latest, snapshot>>
  BY FetchType DEF IInv, Fetch
<1>2. PICK to \in Nat :
        /\ cursor[kind] <= to /\ to <= latest
        /\ cursor' = [cursor EXCEPT ![kind] = to + 1]
        /\ got' = got \cup {i \in DOMAIN log : log[i].kind = kind /\ BlockOf(i) \in cursor[kind] .. to}
  BY FetchType DEF IInv
<1>3. cursor \in [Kinds -> 0 .. latest + 1] /\ from \in Nat /\ latest \in Nat
  BY DEF IInv, TypeOK
<1>4. \A x \in Kinds : from <= cursor'[x]
  BY <1>1, <1>2, <1>3 DEF ScanInv
<1>5. \A i \in DOMAIN log : log[i].kind \in Kinds /\ BlockOf(i) \in Nat
  <2>1. \A i \in DOMAIN log : log[i] \in [kind : Kinds, key : Mapping] /\ i \in Nat
    BY Elements DEF IInv, TypeOK
  <2> QED BY <2>1, AuditAssumption DEF BlockOf
<1>6. got' = Fetched'
  <2>1. Fetched' = {i \in DOMAIN log : from <= BlockOf(i) /\ BlockOf(i) < cursor'[log[i].kind]}
    BY <1>1 DEF Fetched, chain, BlockOf
  <2>2. \A i \in DOMAIN log :
          BlockOf(i) < cursor'[log[i].kind] <=>
            \/ BlockOf(i) < cursor[log[i].kind]
            \/ log[i].kind = kind /\ BlockOf(i) \in cursor[kind] .. to
    <3> TAKE i \in DOMAIN log
    <3>1. CASE log[i].kind = kind
      <4>1. cursor'[log[i].kind] = to + 1 /\ cursor[kind] \in Nat
        BY <1>2, <1>3, <3>1
      <4> QED BY <1>2, <1>5, <3>1, <4>1
    <3>2. CASE log[i].kind # kind
      BY <1>2, <1>3, <1>5, <3>2
    <3> QED BY <3>1, <3>2
  <2>3. \A i \in DOMAIN log : BlockOf(i) \in cursor[kind] .. to => from <= BlockOf(i)
    BY <1>1, <1>3, <1>5 DEF ScanInv
  <2> QED BY <1>1, <1>2, <2>1, <2>2, <2>3 DEF ScanInv, Fetched
<1>7. ScanInv'
  BY <1>1, <1>4, <1>6 DEF ScanInv, UpTo, chain, BlockOf
<1> QED BY <1>1, <1>7 DEF IInv, MappedIsReplay, chain

LEMMA BeginKeeps ==
  ASSUME IInv, NEW migrate \in BOOLEAN, NEW filter \in Filters, NEW start, Begin(migrate, filter, start)
  PROVE  IInv'
<1>1. TypeOK' /\ start \in Nat /\ start <= latest' /\ latest' \in Nat
  BY BeginType DEF IInv
<1>2. /\ pc' = "fetching" /\ from' = start /\ latest' = HeadBlock /\ snapshot' = mapped /\ got' = {}
      /\ cursor' = [kind \in Kinds |-> start] /\ log' = log /\ mapped' = mapped
  BY DEF Begin, chain
<1>3. \A i \in DOMAIN log : /\ BlockOf(i) \in Nat /\ BlockOf(i) <= HeadBlock
                            /\ log[i].kind \in Kinds
  <2>1. \A i \in DOMAIN log : /\ log[i] \in [kind : Kinds, key : Mapping]
                              /\ i \in Nat /\ i <= Len(log)
    BY Elements DEF IInv, TypeOK
  <2>2. log \in Seq([kind : Kinds, key : Mapping])
    BY DEF IInv, TypeOK
  <2>3. Len(log) \in Nat
    BY <2>2, Elements
  <2> QED BY <2>1, <2>3, AuditAssumption DEF BlockOf, HeadBlock
<1>4. UpTo(latest)' = DOMAIN log
  BY <1>2, <1>3 DEF UpTo, BlockOf
<1>5. Fetched' = {}
  BY <1>1, <1>2, <1>3 DEF Fetched, BlockOf
<1> QED BY <1>1, <1>2, <1>4, <1>5 DEF IInv, MappedIsReplay, ScanInv

LEMMA ReportKeeps ==
  ASSUME IInv, Report
  PROVE  IInv'
<1>1. TypeOK' /\ ScanInv /\ pc = "fetching" /\ pc' = "reported"
  BY ReportType DEF IInv, Report
<1>2. UNCHANGED <<log, mapped, from, latest, cursor, got, snapshot, scope>>
  BY DEF Report, chain
<1>3. \A kind \in Kinds : cursor[kind] = latest + 1
  <2> TAKE kind \in Kinds
  <2>1. latest \in Nat /\ cursor[kind] \in 0 .. latest + 1
    BY DEF IInv, TypeOK
  <2>2. cursor[kind] > latest
    BY DEF Report
  <2>3. \A c, l \in Nat : c <= l + 1 /\ c > l => c = l + 1
    OBVIOUS
  <2>4. cursor[kind] \in Nat /\ cursor[kind] <= latest + 1
    BY <2>1
  <2> QED BY <2>1, <2>2, <2>3, <2>4
<1>4. ReportInv'
  BY <1>2, <1>3 DEF ReportInv, Report
<1>5. ScanInv' /\ MappedIsReplay'
  BY <1>1, <1>2 DEF IInv, ScanInv, MappedIsReplay, UpTo, Fetched, BlockOf
<1> QED BY <1>1, <1>4, <1>5 DEF IInv

\* What leaves the manager and the scan alone.
LEMMA QuietKeeps ==
  ASSUME IInv, TypeOK', UNCHANGED <<chain, audit>>
  PROVE  IInv'
BY DEF IInv, MappedIsReplay, ScanInv, ReportInv, UpTo, Fetched, BlockOf, chain, audit

LEMMA InitIInv == Init => IInv
<1> SUFFICES ASSUME Init PROVE IInv
  OBVIOUS
<1>1. Replayed(log, DOMAIN log) = {}
  BY DEF Init, Replayed
<1> QED BY <1>1, InitType DEF Init, IInv, MappedIsReplay

LEMMA NextIInv == IInv /\ [Next]_vars => IInv'
<1> SUFFICES ASSUME IInv, [Next]_vars PROVE IInv'
  OBVIOUS
<1> USE DEF IInv
<1>1. CASE \E a \in Artifact, s \in Selector : EditAbi(a, s)
  <2>1. PICK a \in Artifact, s \in Selector : EditAbi(a, s)
    BY <1>1
  <2>2. UNCHANGED <<chain, audit>>
    BY <2>1 DEF EditAbi
  <2>3. TypeOK'
    <3>1. abi' \in [Artifact -> SUBSET Selector] /\ edits' \in Nat
      BY <2>1 DEF EditAbi, TypeOK
    <3> QED BY <2>1, <2>2, <3>1 DEF EditAbi, TypeOK, chain, audit, HeadBlock
  <2> QED BY <2>2, <2>3, QuietKeeps
<1>2. CASE \E t \in Target, s \in Selector : EditScript(t, s)
  <2>1. PICK t \in Target, s \in Selector : EditScript(t, s)
    BY <1>2
  <2>2. UNCHANGED <<chain, audit>>
    BY <2>1 DEF EditScript
  <2>3. TypeOK'
    <3>1. script' \in [Target -> SUBSET Selector] /\ edits' \in Nat
      BY <2>1 DEF EditScript, TypeOK
    <3> QED BY <2>1, <2>2, <3>1 DEF EditScript, TypeOK, chain, audit, HeadBlock
  <2> QED BY <2>2, <2>3, QuietKeeps
<1>3. CASE \E t \in Target, s \in Selector : AddFunctionAllowedRoles(t, s)
  <2>1. PICK t \in Target, s \in Selector : AddFunctionAllowedRoles(t, s)
    BY <1>3
  <2> DEFINE k == <<t, s>>
  <2>2. k \in Mapping /\ "add" \in Kinds
    BY DEF Mapping, Kinds
  <2>3. /\ Emit("add", k) /\ mapped' = mapped \cup {k}
        /\ UNCHANGED <<code, audit, file, todo, progress>> /\ quiet' = FALSE
    BY <2>1 DEF AddFunctionAllowedRoles
  <2>4. mapped' \subseteq Mapping
    BY <2>2, <2>3 DEF TypeOK
  <2>5. todo' \subseteq Mapping /\ progress' \in {"none", "written", "running", "done"}
    BY <2>3 DEF TypeOK
  <2> HIDE DEF k
  <2>6. TypeOK'
    BY <2>2, <2>3, <2>4, <2>5, ChainType
  <2>7. UNCHANGED audit
    BY <2>3
  <2> QED BY <2>2, <2>3, <2>6, <2>7, EmitKeeps
<1>4. CASE \E migrate \in BOOLEAN, filter \in Filters, start \in Starts : Begin(migrate, filter, start)
  BY <1>4, BeginKeeps
<1>5. CASE \E kind \in Kinds : Fetch(kind)
  BY <1>5, FetchKeeps
<1>6. CASE Report
  BY <1>6, ReportKeeps
<1>7. CASE RunFile \/ StopFile
  <2>1. UNCHANGED <<chain, audit>> /\ TypeOK'
    BY <1>7, FileType DEF RunFile, StopFile
  <2> QED BY <2>1, QuietKeeps
<1>8. CASE \E k \in Mapping : RemoveFunctionAllowedRoles(k)
  <2>1. PICK k \in Mapping : RemoveFunctionAllowedRoles(k)
    BY <1>8
  <2>2. "remove" \in Kinds /\ "remove" # "add"
    BY DEF Kinds
  <2>3. /\ Emit("remove", k) /\ mapped' = mapped \ {k} /\ todo' = todo \ {k}
        /\ UNCHANGED <<code, audit, file, quiet>>
        /\ progress' = IF progress = "running" /\ todo' = {} THEN "done" ELSE progress
    BY <2>1 DEF RemoveFunctionAllowedRoles
  <2>4. mapped' \subseteq Mapping /\ todo' \subseteq Mapping /\ quiet' \in BOOLEAN
    BY <2>3 DEF TypeOK
  <2>5. progress' \in {"none", "written", "running", "done"}
    BY <2>3 DEF TypeOK
  <2>6. TypeOK'
    BY <2>2, <2>3, <2>4, <2>5, ChainType
  <2>7. UNCHANGED audit
    BY <2>3
  <2> QED BY <2>2, <2>3, <2>6, <2>7, EmitKeeps
<1>9. CASE UNCHANGED vars
  <2>1. UNCHANGED <<chain, audit>> /\ TypeOK'
    BY <1>9 DEF vars, TypeOK, chain, code, audit, migration, HeadBlock
  <2> QED BY <2>1, QuietKeeps
<1> QED BY <1>1, <1>2, <1>3, <1>4, <1>5, <1>6, <1>7, <1>8, <1>9 DEF Next

\* A scan that begins no later than the manager has seen every event up to its
\* last block.
LEMMA ExactReport ==
  ASSUME IInv, StartCoversLog
  PROVE  ReplayIsLive
<1> SUFFICES ASSUME pc = "reported" PROVE seen = {k \in snapshot : k[1] \in scope}
  BY DEF ReplayIsLive
<1>1. ScanInv /\ ReportInv /\ from <= ManagerBlock
  BY DEF IInv, StartCoversLog
<1>2. from \in Nat /\ latest \in Nat /\ \A kind \in Kinds : cursor[kind] = latest + 1
  BY <1>1 DEF IInv, TypeOK, ReportInv
<1>3. \A i \in DOMAIN log : log[i].kind \in Kinds /\ BlockOf(i) \in Nat /\ ManagerBlock <= BlockOf(i)
  <2>1. \A i \in DOMAIN log : log[i] \in [kind : Kinds, key : Mapping] /\ i \in Nat
    BY Elements DEF IInv, TypeOK
  <2> QED BY <2>1, AuditAssumption DEF BlockOf
<1>4. Fetched = UpTo(latest)
  BY <1>1, <1>2, <1>3, AuditAssumption DEF Fetched, UpTo
<1> QED BY <1>1, <1>4 DEF ScanInv, ReportInv

-----------------------------------------------------------------------------
\* The inductive invariant: the mappings are the replay of the log, and a scan
\* holds what its cursors have passed.
THEOREM ScansFollowTheLog == Spec => []IInv
<1>1. Init => IInv
  BY InitIInv
<1>2. IInv /\ [Next]_vars => IInv'
  BY NextIInv
<1> QED BY <1>1, <1>2, PTL DEF Spec

-----------------------------------------------------------------------------
(***************************************************************************)
(* The search for the manager's first block, and the scans that rely on    *)
(* it.  What a recursive function computes for every range of blocks is    *)
(* shown with its closed form, which solves the function's equation, and   *)
(* with a smallest range on which another solution would differ from it.   *)
(***************************************************************************)

\* What the search returns from two blocks <<lo, hi>>.
Found(w) == IF w[1] + 1 >= w[2] THEN w[2]
            ELSE IF HasCode(w[1]) THEN w[1] + 1
            ELSE IF ~HasCode(w[2]) THEN w[2] ELSE ManagerBlock

Windows(head) == (0 .. head) \X (0 .. head)
IsSearch(f, head) ==
  f = [w \in Windows(head) |->
         IF w[1] + 1 >= w[2] THEN w[2]
         ELSE IF HasCode(Middle(w)) THEN f[<<w[1], Middle(w)>>] ELSE f[<<Middle(w), w[2]>>]]

LEMMA LeastNat ==
  ASSUME NEW T \in SUBSET Nat, T # {}
  PROVE  \E x \in T : \A y \in T : x <= y
<1> DEFINE R == OpToRel(<, Nat)
<1>1. IsWellFoundedOn(R, Nat) /\ T \subseteq Nat
  BY NatLessThanWellFounded
<1>2. \A x, y \in Nat : y < x => <<y, x>> \in R
  BY DEF OpToRel
<1> HIDE DEF R
<1>3. PICK x \in T : \A y \in T : ~(<<y, x>> \in R)
  BY <1>1, WFMin
<1>4. ASSUME NEW y \in T PROVE x <= y
  <2>1. ~(y < x)
    BY <1>2, <1>3
  <2> QED BY <2>1
<1> QED BY <1>4

LEMMA MiddleFacts ==
  ASSUME NEW a \in Nat, NEW b \in Nat, a + 1 < b
  PROVE  Middle(<<a, b>>) \in Nat /\ a < Middle(<<a, b>>) /\ Middle(<<a, b>>) < b
<1>1. (a + b) \div 2 \in Nat /\ a < (a + b) \div 2 /\ (a + b) \div 2 < b
  OBVIOUS
<1> QED BY <1>1 DEF Middle

LEMMA FoundFacts ==
  ASSUME NEW a \in Nat, NEW b \in Nat, a + 1 < b
  PROVE  Found(<<a, b>>) = IF HasCode(Middle(<<a, b>>)) THEN Found(<<a, Middle(<<a, b>>)>>)
                           ELSE Found(<<Middle(<<a, b>>), b>>)
<1>1. ManagerBlock \in Nat
  BY AuditAssumption
<1>2. PICK m \in Nat : m = Middle(<<a, b>>) /\ a < m /\ m < b
  BY MiddleFacts
<1>3. Found(<<a, b>>) = IF HasCode(m) THEN Found(<<a, m>>) ELSE Found(<<m, b>>)
  BY <1>1, <1>2 DEF Found, HasCode
<1> QED BY <1>2, <1>3

LEMMA SearchSteps ==
  ASSUME NEW head \in Nat, NEW f, IsSearch(f, head), NEW a \in 0 .. head, NEW b \in 0 .. head
  PROVE  f[<<a, b>>] = IF a + 1 >= b THEN b
                       ELSE IF HasCode(Middle(<<a, b>>)) THEN f[<<a, Middle(<<a, b>>)>>]
                       ELSE f[<<Middle(<<a, b>>), b>>]
<1>1. <<a, b>> \in Windows(head) /\ <<a, b>>[1] = a /\ <<a, b>>[2] = b
  BY DEF Windows
<1> QED BY <1>1 DEF IsSearch

LEMMA SearchExists ==
  ASSUME NEW head \in Nat
  PROVE  \E f : IsSearch(f, head)
<1>1. PICK f : f = [w \in Windows(head) |-> Found(w)]
  OBVIOUS
<1>2. ASSUME NEW w \in Windows(head)
      PROVE  f[w] = IF w[1] + 1 >= w[2] THEN w[2]
                    ELSE IF HasCode(Middle(w)) THEN f[<<w[1], Middle(w)>>] ELSE f[<<Middle(w), w[2]>>]
  <2>1. PICK a \in 0 .. head, b \in 0 .. head : w = <<a, b>>
    BY DEF Windows
  <2>2. w[1] = a /\ w[2] = b /\ f[w] = Found(<<a, b>>)
    BY <1>1, <2>1
  <2>3. CASE a + 1 >= b
    <3>1. Found(<<a, b>>) = b
      BY <2>3 DEF Found
    <3> QED BY <2>2, <2>3, <3>1
  <2>4. CASE a + 1 < b
    <3>1. PICK m \in Nat : m = Middle(<<a, b>>) /\ a < m /\ m < b
      BY <2>4, MiddleFacts
    <3>2. <<a, m>> \in Windows(head) /\ <<m, b>> \in Windows(head)
      BY <3>1 DEF Windows
    <3>3. f[<<a, m>>] = Found(<<a, m>>) /\ f[<<m, b>>] = Found(<<m, b>>)
      BY <1>1, <3>2
    <3>4. Found(<<a, b>>) = IF HasCode(m) THEN Found(<<a, m>>) ELSE Found(<<m, b>>)
      BY <2>4, <3>1, FoundFacts
    <3>5. ~(a + 1 >= b)
      BY <2>4
    <3> QED BY <2>1, <2>2, <3>1, <3>3, <3>4, <3>5
  <2> QED BY <2>3, <2>4
<1>3. IsSearch(f, head)
  BY <1>1, <1>2 DEF IsSearch
<1> QED BY <1>3

LEMMA SearchUnique ==
  ASSUME NEW head \in Nat, NEW f, IsSearch(f, head), NEW a \in 0 .. head, NEW b \in 0 .. head
  PROVE  f[<<a, b>>] = Found(<<a, b>>)
<1> DEFINE Differs(x, y) == f[<<x, y>>] # Found(<<x, y>>)
           T == {n \in Nat : \E x, y \in 0 .. head : x + n = y /\ Differs(x, y)}
<1>1. ASSUME NEW x \in 0 .. head, NEW y \in 0 .. head, Differs(x, y) PROVE x + 1 < y
  <2>1. CASE x + 1 >= y
    <3>1. f[<<x, y>>] = y
      BY <2>1, SearchSteps
    <3>2. Found(<<x, y>>) = y
      BY <2>1 DEF Found
    <3> QED BY <1>1, <3>1, <3>2
  <2> QED BY <2>1
<1>2. T = {}
  <2> SUFFICES ASSUME T # {} PROVE FALSE
    OBVIOUS
  <2>1. T \in SUBSET Nat
    OBVIOUS
  <2> HIDE DEF Differs
  <2>2. PICK n \in T : \A k \in T : n <= k
    <3> HIDE DEF T
    <3> QED BY <2>1, LeastNat
  <2>3. PICK x \in 0 .. head, y \in 0 .. head : x + n = y /\ Differs(x, y)
    BY <2>2
  <2>4. x + 1 < y
    BY <1>1, <2>3
  <2>5. PICK m \in Nat : m = Middle(<<x, y>>) /\ x < m /\ m < y
    BY <2>4, MiddleFacts
  <2>6. m \in 0 .. head
    BY <2>5
  <2>7. ~Differs(x, m)
    <3>1. m - x \in Nat /\ ~(n <= m - x) /\ x + (m - x) = m
      BY <2>1, <2>3, <2>5
    <3>2. m - x \notin T
      BY <2>2, <3>1
    <3> QED BY <2>6, <3>1, <3>2
  <2>8. ~Differs(m, y)
    <3>1. y - m \in Nat /\ ~(n <= y - m) /\ m + (y - m) = y
      BY <2>1, <2>3, <2>5
    <3>2. y - m \notin T
      BY <2>2, <3>1
    <3> QED BY <2>6, <3>1, <3>2
  <2>9. f[<<x, y>>] = IF HasCode(m) THEN f[<<x, m>>] ELSE f[<<m, y>>]
    BY <2>4, <2>5, SearchSteps
  <2>10. Found(<<x, y>>) = IF HasCode(m) THEN Found(<<x, m>>) ELSE Found(<<m, y>>)
    <3>1. x \in Nat /\ y \in Nat
      OBVIOUS
    <3>2. Found(<<x, y>>) = IF HasCode(Middle(<<x, y>>)) THEN Found(<<x, Middle(<<x, y>>)>>)
                            ELSE Found(<<Middle(<<x, y>>), y>>)
      BY <2>4, <3>1, FoundFacts
    <3> QED BY <2>5, <3>2
  <2> QED BY <2>3, <2>7, <2>8, <2>9, <2>10 DEF Differs
<1>3. ~Differs(a, b)
  <2> SUFFICES ASSUME Differs(a, b) PROVE FALSE
    OBVIOUS
  <2>1. a + 1 < b
    BY <1>1
  <2>2. b - a \in Nat /\ a + (b - a) = b
    BY <2>1
  <2> HIDE DEF Differs
  <2>3. b - a \in T
    BY <2>2
  <2> QED BY <1>2, <2>3
<1> QED BY <1>3

\* The search finds the block in which the manager was created, however long
\* the chain is (binarySearchDeployBlock).
THEOREM SearchFindsManager ==
  ASSUME NEW head \in Nat, ManagerBlock <= head
  PROVE  DeployBlock(head) = ManagerBlock
<1>1. ManagerBlock \in Nat
  BY AuditAssumption
<1>2. CASE HasCode(0)
  <2>1. DeployBlock(head) = 0
    BY <1>2 DEF DeployBlock
  <2> QED BY <1>1, <1>2, <2>1 DEF HasCode
<1>3. CASE ~HasCode(0)
  <2> DEFINE f == CHOOSE f : IsSearch(f, head)
  <2>1. DeployBlock(head) = f[<<0, head>>]
    BY <1>3 DEF DeployBlock, IsSearch, Windows
  <2>2. IsSearch(f, head)
    BY SearchExists
  <2> HIDE DEF f
  <2>3. f[<<0, head>>] = Found(<<0, head>>)
    BY <2>2, SearchUnique
  <2>4. Found(<<0, head>>) = ManagerBlock
    BY <1>1, <1>3 DEF Found, HasCode
  <2> QED BY <2>1, <2>3, <2>4
<1> QED BY <1>2, <1>3

-----------------------------------------------------------------------------
\* The variables of the operator give no block after the manager's.
EnvIsEarly == \A b \in EnvStart \ {NoEnv} : b <= ManagerBlock

\* However a scan finds its first block, the manager was created in it or
\* later: the flag and the default are block 0, the search is exact.
THEOREM ScansCoverTheLog ==
  ASSUME EnvIsEarly
  PROVE  Spec => []StartCoversLog
<1>1. Init => StartCoversLog
  BY DEF Init, StartCoversLog
<1>2. IInv /\ StartCoversLog /\ [Next]_vars => StartCoversLog'
  <2> SUFFICES ASSUME IInv, StartCoversLog, [Next]_vars PROVE StartCoversLog'
    OBVIOUS
  <2>1. CASE \E migrate \in BOOLEAN, filter \in Filters, start \in Starts : Begin(migrate, filter, start)
    <3>1. PICK start \in Starts : from' = start /\ start \in 0 .. HeadBlock
      BY <2>1 DEF Begin
    <3>2. HeadBlock \in Nat /\ ManagerBlock <= HeadBlock /\ ManagerBlock \in Nat
      <4>1. Len(log) \in Nat
        BY DEF IInv, TypeOK
      <4> QED BY <4>1, AuditAssumption DEF HeadBlock
    <3>3. CASE start = 0
      BY <3>1, <3>2, <3>3 DEF StartCoversLog
    <3>4. CASE start \in EnvStart \ {NoEnv}
      BY <3>1, <3>4 DEF StartCoversLog, EnvIsEarly
    <3>5. CASE start = DeployBlock(HeadBlock)
      <4>1. PICK head \in Nat : head = HeadBlock
        BY <3>2
      <4>2. DeployBlock(head) = ManagerBlock
        BY <3>2, <4>1, SearchFindsManager
      <4> QED BY <3>1, <3>2, <3>5, <4>1, <4>2 DEF StartCoversLog
    <3> QED BY <3>1, <3>3, <3>4, <3>5 DEF Starts
  <2>2. CASE pc' = pc /\ from' = from
    BY <2>2 DEF StartCoversLog
  <2>3. CASE Report
    BY <2>3 DEF Report, StartCoversLog
  <2>4. CASE \/ \E a \in Artifact, s \in Selector : EditAbi(a, s)
             \/ \E t \in Target, s \in Selector : EditScript(t, s)
             \/ \E t \in Target, s \in Selector : AddFunctionAllowedRoles(t, s)
             \/ \E kind \in Kinds : Fetch(kind)
             \/ RunFile \/ StopFile
             \/ \E k \in Mapping : RemoveFunctionAllowedRoles(k)
             \/ UNCHANGED vars
    BY <2>2, <2>4 DEF EditAbi, EditScript, AddFunctionAllowedRoles, Fetch, RunFile, StopFile,
                      RemoveFunctionAllowedRoles, vars, audit
  <2> QED BY <2>1, <2>3, <2>4 DEF Next
<1> QED BY <1>1, <1>2, ScansFollowTheLog, PTL DEF Spec

\* Whatever is deployed or removed while the windows are fetched, what an audit
\* reports on is what was mapped when it read the head of the chain
\* (fetchLogsChunked, replayed by the audits).
THEOREM AuditsSeeOneMoment ==
  ASSUME EnvIsEarly
  PROVE  Spec => []ReplayIsLive
<1>1. IInv /\ StartCoversLog => ReplayIsLive
  BY ExactReport
<1> QED BY <1>1, ScansFollowTheLog, ScansCoverTheLog, PTL

-----------------------------------------------------------------------------
(***************************************************************************)
(* Migrations converge.  A mapping is stale when no artifact has all the   *)
(* functions that are mapped on its target: to take mappings away makes    *)
(* none of the others stale.                                               *)
(***************************************************************************)

Homeless(live) == {k \in live : Candidates(Selectors(live, k[1])) = {}}

\* Since the migration's audit began mappings have only been removed, and what
\* it found stale is in the file, and is still to be removed while it is mapped.
ConvergeInv ==
  quiet =>
    /\ pc # "idle" /\ migrating /\ mapped \subseteq snapshot
    /\ pc = "reported" =>
         /\ stale = Homeless(seen)
         /\ stale # {} => file = stale
         /\ progress = "running" => mapped \cap stale \subseteq todo
         /\ progress = "done" => mapped \cap stale = {}

\* Of the artifacts that have all the functions, one is chosen.
LEMMA FingerprintFacts ==
  ASSUME abi \in [Artifact -> SUBSET Selector], NEW sels, Candidates(sels) # {}
  PROVE  Fingerprint(sels) \in Candidates(sels)
<1> DEFINE C == Candidates(sels)
           D == IF C \cap Deployable = {} THEN C ELSE C \cap Deployable
           sizes == {Cardinality(abi[a]) : a \in D}
<1>1. \A a \in C : Cardinality(abi[a]) \in Nat
  <2>1. \A a \in C : IsFiniteSet(abi[a])
    BY FS_Subset, AuditAssumption DEF Candidates
  <2> QED BY <2>1, FS_CardinalityType
<1>2. D \subseteq C /\ D # {}
  OBVIOUS
<1>3. sizes \in SUBSET Nat /\ sizes # {}
  BY <1>1, <1>2
<1>4. PICK n \in sizes : \A k \in sizes : n <= k
  <2> HIDE DEF sizes
  <2> QED BY <1>3, LeastNat
<1>5. PICK a \in D : Cardinality(abi[a]) = n
  BY <1>4
<1>6. ASSUME NEW b \in C PROVE ~Better(b, a)
  <2>1. CASE b \in D
    <3>1. n <= Cardinality(abi[b]) /\ n \in Nat /\ Cardinality(abi[b]) \in Nat
      BY <1>1, <1>3, <1>4, <2>1
    <3>2. b \in Deployable <=> a \in Deployable
      BY <1>2, <1>5, <2>1
    <3> QED BY <1>5, <3>1, <3>2 DEF Better
  <2>2. CASE b \notin D
    <3>1. a \in Deployable /\ b \notin Deployable
      BY <1>5, <1>6, <2>2
    <3> QED BY <3>1 DEF Better
  <2> QED BY <2>1, <2>2
<1>7. \E x \in C : \A b \in C : ~Better(b, x)
  BY <1>2, <1>5, <1>6
<1> QED BY <1>7 DEF Fingerprint

LEMMA StaleIsHomeless ==
  ASSUME abi \in [Artifact -> SUBSET Selector], NEW live \in SUBSET Mapping
  PROVE  StaleOf(live) = Homeless(live)
<1> SUFFICES ASSUME NEW k \in live
             PROVE  (IF Resolved(live, k[1]) = NoArtifact THEN TRUE ELSE k[2] \notin abi[Resolved(live, k[1])])
                    <=> Candidates(Selectors(live, k[1])) = {}
  BY DEF StaleOf, Homeless
<1> DEFINE sels == Selectors(live, k[1])
<1>1. k[2] \in sels
  BY DEF Selectors, Mapping
<1> HIDE DEF sels
<1>2. CASE Candidates(sels) = {}
  BY <1>2 DEF Resolved, Fingerprint, sels
<1>3. CASE Candidates(sels) # {}
  <2>1. Fingerprint(sels) \in Candidates(sels)
    BY <1>3, FingerprintFacts
  <2>2. Resolved(live, k[1]) \in Candidates(sels)
    BY <2>1 DEF Resolved, sels
  <2>3. Resolved(live, k[1]) # NoArtifact /\ k[2] \in abi[Resolved(live, k[1])]
    BY <1>1, <2>2, AuditAssumption DEF Candidates
  <2> QED BY <1>3, <2>3 DEF sels
<1> QED BY <1>2, <1>3 DEF sels

\* What is left of the mappings is as much at home as before.
LEMMA FewerHomeless ==
  ASSUME NEW live, NEW rest \in SUBSET live
  PROVE  Homeless(rest) \subseteq Homeless(live)
<1> SUFFICES ASSUME NEW k \in rest, Candidates(Selectors(live, k[1])) # {}
             PROVE  Candidates(Selectors(rest, k[1])) # {}
  BY DEF Homeless
<1>1. Selectors(rest, k[1]) \subseteq Selectors(live, k[1])
  BY DEF Selectors
<1> QED BY <1>1 DEF Candidates

LEMMA ReportConverges ==
  ASSUME IInv, TypeOK', ConvergeInv, Report
  PROVE  ConvergeInv'
<1>1. /\ UNCHANGED <<mapped, snapshot, migrating, abi, quiet, todo>>
      /\ pc' = "reported" /\ stale' = StaleOf(seen')
      /\ file' = IF Writes(stale') THEN stale' ELSE file
      /\ progress' = IF Writes(stale') THEN "written" ELSE progress
  BY DEF Report, chain, code
<1>2. PICK found \in SUBSET Mapping : found = seen'
  BY DEF TypeOK
<1>3. stale' = Homeless(found)
  BY <1>1, <1>2, StaleIsHomeless DEF IInv, TypeOK
<1>4. stale' = Homeless(seen)'
  BY <1>1, <1>2, <1>3 DEF Homeless, Candidates, Selectors
<1> SUFFICES ASSUME quiet PROVE ConvergeInv'
  BY <1>1 DEF ConvergeInv
<1>5. migrating /\ mapped' \subseteq snapshot'
  BY <1>1 DEF ConvergeInv
<1>6. CASE stale' # {}
  BY <1>1, <1>4, <1>5, <1>6 DEF ConvergeInv, Writes
<1>7. CASE stale' = {}
  BY <1>1, <1>4, <1>5, <1>7 DEF ConvergeInv
<1> QED BY <1>6, <1>7

\* The file is run, stopped, and its removals made.
LEMMA FileConverges ==
  ASSUME ConvergeInv, UNCHANGED <<code, audit, file, quiet>>,
         \/ RunFile \/ StopFile
         \/ \E k \in Mapping : RemoveFunctionAllowedRoles(k)
         \/ UNCHANGED <<mapped, todo, progress>>
  PROVE  ConvergeInv'
<1>1. UNCHANGED <<abi, pc, migrating, snapshot, seen, stale, file, quiet>>
  BY DEF code, audit
<1>2. Homeless(seen)' = Homeless(seen)
  BY <1>1 DEF Homeless, Candidates, Selectors
<1> SUFFICES ASSUME quiet PROVE ConvergeInv'
  BY <1>1 DEF ConvergeInv
<1>3. pc # "idle" /\ migrating /\ mapped \subseteq snapshot
  BY DEF ConvergeInv
<1>4. mapped' \subseteq mapped
  BY DEF RunFile, StopFile, RemoveFunctionAllowedRoles, chain
<1>5. ASSUME pc = "reported"
      PROVE  /\ progress' = "running" => mapped' \cap stale \subseteq todo'
             /\ progress' = "done" => mapped' \cap stale = {}
  <2>1. /\ stale # {} => file = stale
        /\ progress = "running" => mapped \cap stale \subseteq todo
        /\ progress = "done" => mapped \cap stale = {}
    BY <1>5 DEF ConvergeInv
  <2>2. CASE RunFile
    BY <2>1, <2>2 DEF RunFile, chain
  <2>3. CASE StopFile
    BY <2>1, <2>3 DEF StopFile, chain
  <2>4. CASE \E k \in Mapping : RemoveFunctionAllowedRoles(k)
    BY <2>1, <2>4 DEF RemoveFunctionAllowedRoles
  <2>5. CASE UNCHANGED <<mapped, todo, progress>>
    BY <2>1, <2>5
  <2> QED BY <2>2, <2>3, <2>4, <2>5
<1> QED BY <1>1, <1>2, <1>3, <1>4, <1>5 DEF ConvergeInv

LEMMA NextConverges ==
  ASSUME IInv, TypeOK', ConvergeInv, [Next]_vars
  PROVE  ConvergeInv'
<1>1. CASE \/ \E a \in Artifact, s \in Selector : EditAbi(a, s)
           \/ \E t \in Target, s \in Selector : EditScript(t, s)
           \/ \E t \in Target, s \in Selector : AddFunctionAllowedRoles(t, s)
  BY <1>1 DEF EditAbi, EditScript, AddFunctionAllowedRoles, ConvergeInv
<1>2. CASE \E migrate \in BOOLEAN, filter \in Filters, start \in Starts : Begin(migrate, filter, start)
  BY <1>2 DEF Begin, ConvergeInv, chain
<1>3. CASE \E kind \in Kinds : Fetch(kind)
  <2>1. pc = "fetching" /\ UNCHANGED <<pc, migrating, mapped, snapshot, quiet>>
    BY <1>3 DEF Fetch, chain, migration
  <2> QED BY <2>1 DEF ConvergeInv
<1>4. CASE Report
  BY <1>4, ReportConverges
<1>5. CASE RunFile \/ StopFile \/ (\E k \in Mapping : RemoveFunctionAllowedRoles(k)) \/ UNCHANGED vars
  <2>1. UNCHANGED <<code, audit, file, quiet>>
    BY <1>5 DEF RunFile, StopFile, RemoveFunctionAllowedRoles, vars, migration
  <2>2. UNCHANGED vars => UNCHANGED <<mapped, todo, progress>>
    BY DEF vars, chain, migration
  <2> QED BY <1>5, <2>1, <2>2, FileConverges
<1> QED BY <1>1, <1>2, <1>3, <1>4, <1>5 DEF Next

\* A migration that has been run to its end, with nothing deployed and no source
\* changed since its audit began, leaves nothing stale, whatever older file was
\* being run meanwhile (generate-migration).
THEOREM MigrationsConverge ==
  ASSUME EnvIsEarly
  PROVE  Spec => []MigrationConverges
<1>1. Init => ConvergeInv
  BY DEF Init, ConvergeInv
<1>2. IInv /\ IInv' /\ ConvergeInv /\ [Next]_vars => ConvergeInv'
  BY NextConverges DEF IInv
<1>3. IInv /\ ConvergeInv /\ ReplayIsLive => MigrationConverges
  <2> SUFFICES ASSUME IInv, ConvergeInv, ReplayIsLive,
                      pc = "reported", migrating, progress = "done", quiet
               PROVE  StaleOf({k \in mapped : k[1] \in scope}) = {}
    BY DEF MigrationConverges
  <2> DEFINE left == {k \in mapped : k[1] \in scope}
  <2>1. /\ mapped \subseteq snapshot /\ stale = Homeless(seen) /\ mapped \cap stale = {}
        /\ seen = {k \in snapshot : k[1] \in scope}
    BY DEF ConvergeInv, ReplayIsLive
  <2>2. left \in SUBSET seen /\ left \in SUBSET Mapping /\ left \subseteq mapped
    BY <2>1 DEF IInv, TypeOK
  <2> HIDE DEF left
  <2>3. StaleOf(left) = Homeless(left)
    BY <2>2, StaleIsHomeless DEF IInv, TypeOK
  <2>4. Homeless(left) \subseteq Homeless(seen) /\ Homeless(left) \subseteq left
    BY <2>2, FewerHomeless DEF Homeless
  <2>5. StaleOf(left) = {}
    BY <2>1, <2>2, <2>3, <2>4
  <2> QED BY <2>5 DEF left
<1> QED BY <1>1, <1>2, <1>3, ScansFollowTheLog, AuditsSeeOneMoment, PTL DEF Spec
=============================================================================
