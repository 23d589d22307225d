---------------------------- MODULE LaunchProofs ----------------------------
(***************************************************************************)
(* The invariants of Launch, for any number of processes, command lines    *)
(* and configurations.  For PlaintextOptIn it is said what each program    *)
(* has checked: a server that listens (ServerChecked), a client that works *)
(* (ClientChecked), and that a call in the clear was made over a           *)
(* connection that both allow (CallConnected).                             *)
(* For SourcesCovered, what the two loops over a configuration build is    *)
(* proved by induction over it (ThosePicked), and Sources says what was    *)
(* done with them at each place of a command.                              *)
(***************************************************************************)
EXTENDS Launch, FiniteSetTheorems, WellFoundedInduction, TLAPS

Places == {"off", "start", "config", "open", "engine", "closing"} \cup Working
Calls == [by : {"none", "exec", "plain", "tls"}, ok : BOOLEAN]
Before == {"start", "config", "open", "engine"}

ServerChecked == engine # <<>> => Listens(engine)
ClientChecked ==
  \A p \in Proc : at[p] \in Working /\ flags[p].grpcAddr # "" => CredentialsBuilt(flags[p])
CallConnected ==
  \A p \in Proc : at[p] \in Working /\ call[p].by = "plain" =>
    flags[p].grpcAddr # "" /\ flags[p].ca = "" /\ Connects(flags[p])
CalledAtWork == \A p \in Proc : at[p] \in Before => call[p].by # "plain"

IInv ==
  /\ TypeOK
  /\ ServerChecked /\ ClientChecked /\ CallConnected /\ CalledAtWork

-----------------------------------------------------------------------------
\* The steps of a command up to its work: none of them calls the engine.
LEMMA Goes ==
  ASSUME IInv, NEW p \in Proc, NEW a \in Places, at' = [at EXCEPT ![p] = a],
         UNCHANGED <<flags, engine, call>>,
         a # "off" => flags[p] \in Flags,
         a \in Before \cup Working => (call[p].by # "plain") \/ (a \in Working /\ at[p] \in Working),
         a \in Working => at[p] \in Working \/ flags[p].grpcAddr = "" \/ CredentialsBuilt(flags[p]),
         lock' \in SUBSET Proc
  PROVE  IInv'
<1> USE DEF IInv
<1>1. /\ at \in [Proc -> Places] /\ at' \in [Proc -> Places] /\ at'[p] = a
      /\ \A q \in Proc : q # p => at'[q] = at[q]
      /\ flags' = flags /\ engine' = engine /\ call' = call
  BY DEF TypeOK, Places
<1>2. TypeOK'
  BY <1>1 DEF TypeOK, Places
<1>4. ServerChecked'
  BY <1>1 DEF ServerChecked, Listens, BindsLocally
<1>5. ClientChecked'
  BY <1>1, ZenonT(40) DEF ClientChecked, CredentialsBuilt, IsLoopbackAddr
<1>6. CallConnected'
  <2> SUFFICES ASSUME NEW q \in Proc, at'[q] \in Working, call[q].by = "plain"
               PROVE  flags[q].grpcAddr # "" /\ flags[q].ca = "" /\ Connects(flags[q])
    BY <1>1, ZenonT(40) DEF CallConnected, Connects
  <2>1. at[q] \in Working
    BY <1>1
  <2> QED BY <2>1 DEF CallConnected
<1>7. CalledAtWork'
  BY <1>1 DEF CalledAtWork, Before, Working
<1> QED BY <1>2, <1>4, <1>5, <1>6, <1>7

LEMMA LaunchKeeps == ASSUME IInv, NEW p \in Proc, Launch(p) PROVE IInv'
<1> USE DEF IInv
<1>1. PICK f \in Flags : flags' = [flags EXCEPT ![p] = f]
  BY DEF Launch
<1>2. /\ at' = [at EXCEPT ![p] = "start"] /\ at[p] = "off"
      /\ lock' = lock /\ engine' = engine
      /\ call' = [call EXCEPT ![p] = NoCall]
  BY DEF Launch, Goto
<1>3. /\ at' \in [Proc -> Places] /\ at'[p] = "start" /\ flags'[p] = f /\ call'[p] = NoCall
      /\ NoCall \in Calls /\ call' \in [Proc -> Calls]
      /\ \A q \in Proc : q # p => at'[q] = at[q] /\ flags'[q] = flags[q] /\ call'[q] = call[q]
  BY <1>1, <1>2 DEF TypeOK, Places, Calls, NoCall
<1>4. TypeOK'
  BY <1>1, <1>2, <1>3 DEF TypeOK, Places, Calls
<1>6. ServerChecked'
  BY <1>2 DEF ServerChecked, Listens, BindsLocally
<1>7. ClientChecked'
  <2> SUFFICES ASSUME NEW q \in Proc, at'[q] \in Working, flags'[q].grpcAddr # ""
               PROVE  CredentialsBuilt(flags'[q])
    BY DEF ClientChecked, CredentialsBuilt, IsLoopbackAddr
  <2>1. q # p
    BY <1>3 DEF Working
  <2> QED BY <1>3, <2>1 DEF ClientChecked
<1>8. CallConnected'
  <2> SUFFICES ASSUME NEW q \in Proc, at'[q] \in Working, call'[q].by = "plain"
               PROVE  flags'[q].grpcAddr # "" /\ flags'[q].ca = "" /\ Connects(flags'[q])
    BY <1>2 DEF CallConnected, Connects
  <2>1. q # p
    BY <1>3 DEF Working
  <2> QED BY <1>3, <2>1 DEF CallConnected
<1>9. CalledAtWork'
  BY <1>3 DEF CalledAtWork, NoCall
<1> QED BY <1>4, <1>6, <1>7, <1>8, <1>9

LEMMA CallKeeps == ASSUME IInv, NEW p \in Proc, CallEngine(p) PROVE IInv'
<1> USE DEF IInv
<1>1. /\ at' = at /\ flags' = flags /\ lock' = lock /\ engine' = engine
      /\ at[p] \in Working
  BY DEF CallEngine
<1>2. PICK c \in Calls : /\ call' = [call EXCEPT ![p] = c]
                         /\ c.by = "plain" => /\ flags[p].grpcAddr # "" /\ flags[p].ca = ""
                                              /\ Connects(flags[p])
  <2>1. CASE flags[p].grpcAddr = ""
    <3> DEFINE c == [by |-> "exec", ok |-> flags[p].bin = "absolute"]
    <3>1. c \in Calls /\ c.by # "plain"
      BY DEF Calls
    <3>2. call' = [call EXCEPT ![p] = c]
      BY <2>1 DEF CallEngine
    <3> QED BY <3>1, <3>2
  <2>2. CASE flags[p].grpcAddr # ""
    <3> DEFINE by == IF flags[p].ca = "" THEN "plain" ELSE "tls"
               c == [by |-> by, ok |-> PathAccepted(flags[p])]
    <3>1. PathAccepted(flags[p]) \in BOOLEAN
      BY DEF PathAccepted
    <3>2. c \in Calls /\ (c.by = "plain" => flags[p].ca = "")
      BY <3>1 DEF Calls
    <3>3. call' = [call EXCEPT ![p] = c] /\ Connects(flags[p])
      BY <2>2 DEF CallEngine
    <3> QED BY <2>2, <3>2, <3>3
  <2> QED BY <2>1, <2>2
<1>3. call' \in [Proc -> Calls] /\ call'[p] = c /\ \A q \in Proc : q # p => call'[q] = call[q]
  BY <1>2 DEF TypeOK, Calls
<1>4. TypeOK'
  BY <1>1, <1>3 DEF TypeOK, Calls
<1>6. ServerChecked'
  BY <1>1 DEF ServerChecked, Listens, BindsLocally
<1>7. ClientChecked'
  BY <1>1 DEF ClientChecked, CredentialsBuilt, IsLoopbackAddr
<1>8. CallConnected'
  <2> SUFFICES ASSUME NEW q \in Proc, at[q] \in Working, call'[q].by = "plain"
               PROVE  flags[q].grpcAddr # "" /\ flags[q].ca = "" /\ Connects(flags[q])
    BY <1>1 DEF CallConnected, Connects
  <2> QED BY <1>2, <1>3 DEF CallConnected
<1>9. CalledAtWork'
  BY <1>1, <1>3 DEF CalledAtWork, Before, Working
<1> QED BY <1>4, <1>6, <1>7, <1>8, <1>9

\* The server: at its start no call of an earlier one is left.
LEMMA ServerKeeps == ASSUME IInv, StartEngine \/ EndEngine PROVE IInv'
<1> USE DEF IInv
<1>1. at' = at /\ flags' = flags /\ lock' = lock
  BY DEF StartEngine, EndEngine
<1>3. ClientChecked'
  BY <1>1 DEF ClientChecked, CredentialsBuilt, IsLoopbackAddr
<1>4. CASE StartEngine
  <2>1. PICK f \in EngineFlags : Listens(f) /\ engine' = f
    BY <1>4 DEF StartEngine
  <2>2. call' = call /\ engine = <<>>
    BY <1>4 DEF StartEngine
  <2>3. TypeOK'
    BY <1>1, <2>1, <2>2 DEF TypeOK
  <2>4. ServerChecked'
    BY <2>1 DEF ServerChecked, Listens, BindsLocally
  <2>5. CallConnected'
    <3> SUFFICES ASSUME NEW q \in Proc, at[q] \in Working, call[q].by = "plain" PROVE FALSE
      BY <1>1, <2>2 DEF CallConnected
    <3> QED BY <2>2 DEF CallConnected, Connects
  <2>6. CalledAtWork'
    BY <1>1, <2>2 DEF CalledAtWork
  <2> QED BY <1>3, <2>3, <2>4, <2>5, <2>6
<1>5. CASE EndEngine
  <2>1. engine' = <<>> /\ call' = [p \in Proc |-> NoCall]
    BY <1>5 DEF EndEngine
  <2>2. NoCall \in Calls /\ NoCall.by = "none"
    BY DEF NoCall, Calls
  <2>3. TypeOK'
    BY <1>1, <2>1, <2>2 DEF TypeOK, Calls
  <2>4. ServerChecked'
    BY <2>1 DEF ServerChecked
  <2>5. CallConnected'
    BY <2>1, <2>2 DEF CallConnected
  <2>6. CalledAtWork'
    BY <2>1, <2>2 DEF CalledAtWork
  <2> QED BY <1>3, <2>3, <2>4, <2>5, <2>6
<1> QED BY <1>4, <1>5

-----------------------------------------------------------------------------
LEMMA InitEstablishes == ASSUME Init PROVE IInv
<1>1. /\ \A p \in Proc : at[p] = "off" /\ call[p] = NoCall
      /\ lock = {} /\ engine = <<>>
  BY DEF Init
<1>2. TypeOK
  BY DEF Init, TypeOK, NoCall
<1>3. ServerChecked /\ ClientChecked /\ CallConnected /\ CalledAtWork
  BY <1>1 DEF ServerChecked, ClientChecked, CallConnected, CalledAtWork, Working, Before
<1> QED BY <1>2, <1>3 DEF IInv

LEMMA StepKeeps == ASSUME IInv, [Next]_vars PROVE IInv'
<1>1. ASSUME NEW p \in Proc, Begin(p) PROVE IInv'
  <2>1. PICK a \in {"config", "open", "off"} : at' = [at EXCEPT ![p] = a]
    BY <1>1 DEF Begin, Goto
  <2>2. at[p] = "start" /\ lock' = lock /\ UNCHANGED <<flags, engine, call>>
    BY <1>1 DEF Begin
  <2>3. flags[p] \in Flags /\ lock' \in SUBSET Proc /\ call[p].by # "plain"
    BY <2>2 DEF IInv, TypeOK, CalledAtWork, Before
  <2>4. a \in Places /\ a \notin Working
    BY <2>1, <2>2 DEF Places, Working
  <2> QED BY <2>1, <2>2, <2>3, <2>4, Goes
<1>2. ASSUME NEW p \in Proc, Configure(p) PROVE IInv'
  <2>1. PICK a \in {"open", "off"} : at' = [at EXCEPT ![p] = a]
    BY <1>2 DEF Configure, Goto
  <2>2. at[p] = "config" /\ lock' = lock /\ UNCHANGED <<flags, engine, call>>
    BY <1>2 DEF Configure
  <2>3. flags[p] \in Flags /\ lock' \in SUBSET Proc /\ call[p].by # "plain"
    BY <2>2 DEF IInv, TypeOK, CalledAtWork, Before
  <2>4. a \in Places /\ a \notin Working
    BY <2>1, <2>2 DEF Places, Working
  <2> QED BY <2>1, <2>2, <2>3, <2>4, Goes
<1>3. ASSUME NEW p \in Proc, OpenStore(p) PROVE IInv'
  <2>1. at[p] = "open" /\ UNCHANGED <<flags, engine, call>> /\ flags[p] \in Flags
        /\ call[p].by # "plain"
    BY <1>3 DEF OpenStore, IInv, TypeOK, CalledAtWork, Before
  <2>2. CASE lock = {} /\ lock' = {p} /\ at' = [at EXCEPT ![p] = "engine"]
    <3>1. "engine" \in Places /\ "engine" \notin Working
      BY DEF Places, Working
    <3>2. lock' \in SUBSET Proc
      BY <2>2
    <3> QED BY <2>1, <2>2, <3>1, <3>2, Goes
  <2>3. CASE lock' = lock /\ at' = [at EXCEPT ![p] = "off"]
    <3>1. lock' \in SUBSET Proc
      BY <2>3 DEF IInv, TypeOK
    <3> QED BY <2>1, <2>3, <3>1, Goes DEF Places, Before, Working
  <2> QED BY <1>3, <2>2, <2>3 DEF OpenStore, Goto
<1>4. ASSUME NEW p \in Proc, ChooseEngine(p) PROVE IInv'
  <2>1. PICK a \in {"closing", "serving", "run"} :
          /\ at' = [at EXCEPT ![p] = a]
          /\ a # "closing" => flags[p].grpcAddr = "" \/ CredentialsBuilt(flags[p])
    BY <1>4 DEF ChooseEngine, Goto
  <2>2. at[p] = "engine" /\ lock' = lock /\ UNCHANGED <<flags, engine, call>>
    BY <1>4 DEF ChooseEngine
  <2>3. flags[p] \in Flags /\ lock' \in SUBSET Proc /\ call[p].by # "plain"
    BY <2>2 DEF IInv, TypeOK, CalledAtWork, Before
  <2>4. /\ a \in Places
        /\ a \in Working => flags[p].grpcAddr = "" \/ CredentialsBuilt(flags[p])
    BY <2>1, <2>2 DEF Places, Working
  <2> QED BY <2>1, <2>2, <2>3, <2>4, Goes
<1>5. ASSUME NEW p \in Proc, RunSources(p) \/ RegisterSources(p) \/ EndServing(p) PROVE IInv'
  <2>1. PICK a \in {"closing", "register", "serving"} :
          at' = [at EXCEPT ![p] = a] /\ at[p] \in Working
    BY <1>5 DEF RunSources, RegisterSources, EndServing, Goto, Working
  <2>2. lock' = lock /\ UNCHANGED <<flags, engine, call>>
    BY <1>5 DEF RunSources, RegisterSources, EndServing
  <2>3. flags[p] \in Flags /\ lock' \in SUBSET Proc
    BY <2>1, <2>2 DEF IInv, TypeOK, Working
  <2>4. flags[p].grpcAddr = "" \/ CredentialsBuilt(flags[p])
    BY <2>1 DEF IInv, ClientChecked
  <2> QED BY <2>1, <2>2, <2>3, <2>4, Goes DEF Places, Before, Working
<1>6. ASSUME NEW p \in Proc, CloseStore(p) \/ Die(p) PROVE IInv'
  <2>1. /\ at' = [at EXCEPT ![p] = "off"] /\ lock' = lock \ {p}
        /\ UNCHANGED <<flags, engine, call>>
    BY <1>6 DEF CloseStore, Die, Goto
  <2>2. lock' \in SUBSET Proc
    BY <2>1 DEF IInv, TypeOK
  <2> QED BY <2>1, <2>2, Goes DEF Places, Before, Working
<1>7. CASE UNCHANGED vars
  BY <1>7 DEF vars, IInv, TypeOK, ServerChecked, ClientChecked, CallConnected,
              CalledAtWork, Listens, BindsLocally, CredentialsBuilt, IsLoopbackAddr, Connects
<1> QED BY <1>1, <1>2, <1>3, <1>4, <1>5, <1>6, <1>7, LaunchKeeps, CallKeeps, ServerKeeps DEF Next

\* What the programs have checked stays true of them.
THEOREM Invariance == Spec => []IInv
<1>1. Init => IInv
  BY InitEstablishes
<1>2. IInv /\ [Next]_vars => IInv'
  BY StepKeeps
<1> QED BY <1>1, <1>2, PTL DEF Spec

\* Any command lines on both sides: nothing travels in the clear to another
\* machine unless both programs were told so.
THEOREM PlaintextOptInAlways == Spec => []PlaintextOptIn
<1>1. IInv => PlaintextOptIn
  <2> SUFFICES ASSUME IInv, NEW p \in Proc, at[p] \in Working, call[p].by = "plain",
                      flags[p].grpcAddr = "remote"
               PROVE  flags[p].insecure /\ engine.insecure
    BY DEF PlaintextOptIn
  <2>1. /\ flags[p].ca = "" /\ Connects(flags[p]) /\ CredentialsBuilt(flags[p])
        /\ engine # <<>> => Listens(engine)
    BY DEF IInv, CallConnected, ClientChecked, ServerChecked
  <2>2. flags[p].insecure
    BY <2>1 DEF CredentialsBuilt, IsLoopbackAddr
  <2>3. Listens(engine) /\ engine.addr = "any" /\ engine.cert = ""
    BY <2>1 DEF Connects
  <2> QED BY <2>2, <2>3 DEF Listens, BindsLocally
<1> QED BY <1>1, Invariance, PTL

-----------------------------------------------------------------------------
(* The sources of a configuration.                                         *)

\* Induction, over a set instead of a predicate.
LEMMA NatInduct ==
  ASSUME NEW T, 0 \in T, \A n \in Nat : n \in T => n + 1 \in T
  PROVE  Nat \subseteq T
<1> SUFFICES ASSUME Nat \ T # {} PROVE FALSE
  OBVIOUS
<1>1. PICK x \in Nat \ T : \A y \in Nat \ T : ~(<<y, x>> \in OpToRel(<, Nat))
  <2>1. IsWellFoundedOn(OpToRel(<, Nat), Nat) /\ Nat \ T \subseteq Nat
    BY NatLessThanWellFounded
  <2> QED BY <2>1, WFMin
<1>2. x - 1 \in Nat /\ x - 1 + 1 = x
  <2>1. x # 0 /\ x \in Nat
    OBVIOUS
  <2> QED BY <2>1
<1>3. x - 1 \notin Nat \ T
  <2>1. <<x - 1, x>> \in OpToRel(<, Nat)
    BY <1>1, <1>2 DEF OpToRel
  <2> QED BY <1>1, <2>1
<1> QED BY <1>1, <1>2, <1>3

\* The positions up to n of the sources that have a schedule, or have none.
Kind(c, scheduled, n) == {j \in 1..n : Scheduled(c[j]) = scheduled}

LEMMA KindStep ==
  ASSUME NEW c, NEW s \in BOOLEAN, NEW n \in Nat
  PROVE  Kind(c, s, n + 1) = IF Scheduled(c[n + 1]) = s THEN Kind(c, s, n) \cup {n + 1}
                                                        ELSE Kind(c, s, n)
<1>1. \A j : j \in 1..(n + 1) <=> (j \in 1..n \/ j = n + 1)
  OBVIOUS
<1>2. \A j : j \in Kind(c, s, n + 1) <=> ((j \in 1..n \/ j = n + 1) /\ Scheduled(c[j]) = s)
  BY <1>1 DEF Kind
<1>3. \A j : j \in Kind(c, s, n) <=> (j \in 1..n /\ Scheduled(c[j]) = s)
  BY DEF Kind
<1>4. CASE Scheduled(c[n + 1]) = s
  BY <1>2, <1>3, <1>4
<1>5. CASE Scheduled(c[n + 1]) # s
  BY <1>2, <1>3, <1>5
<1> QED BY <1>4, <1>5

LEMMA KindGrows ==
  ASSUME NEW c, NEW s \in BOOLEAN, NEW n \in Nat
  PROVE  /\ IsFiniteSet(Kind(c, s, n)) /\ Cardinality(Kind(c, s, n)) \in Nat
         /\ Cardinality(Kind(c, s, n + 1)) =
              IF Scheduled(c[n + 1]) = s THEN Cardinality(Kind(c, s, n)) + 1
                                         ELSE Cardinality(Kind(c, s, n))
         /\ Cardinality(Kind(c, s, 0)) = 0
         /\ \A k \in Kind(c, s, n) : Cardinality(Kind(c, s, k)) \in 1..Cardinality(Kind(c, s, n))
<1>1. ASSUME NEW m \in Nat
      PROVE  IsFiniteSet(Kind(c, s, m)) /\ Cardinality(Kind(c, s, m)) \in Nat
  <2>1. Kind(c, s, m) \subseteq 1..m /\ IsFiniteSet(1..m)
    BY FS_Interval DEF Kind
  <2> QED BY <2>1, FS_Subset, FS_CardinalityType
<1>2. n + 1 \notin Kind(c, s, n)
  BY DEF Kind
<1>3. Cardinality(Kind(c, s, n) \cup {n + 1}) = Cardinality(Kind(c, s, n)) + 1
  BY <1>1, <1>2, FS_AddElement
<1>4. Cardinality(Kind(c, s, 0)) = 0
  <2>1. Kind(c, s, 0) = {}
    BY DEF Kind
  <2> QED BY <2>1, FS_EmptySet
<1>5. ASSUME NEW k \in Kind(c, s, n)
      PROVE  Cardinality(Kind(c, s, k)) \in 1..Cardinality(Kind(c, s, n))
  <2>1. k \in Nat /\ Kind(c, s, k) \subseteq Kind(c, s, n) /\ k \in Kind(c, s, k)
    <3>1. k \in 1..n /\ k \in 1..k /\ 1..k \subseteq 1..n /\ Scheduled(c[k]) = s
      BY <1>5 DEF Kind
    <3> QED BY <3>1 DEF Kind
  <2>2. Cardinality(Kind(c, s, k)) <= Cardinality(Kind(c, s, n))
    BY <1>1, <2>1, FS_Subset
  <2>3. Cardinality(Kind(c, s, k)) # 0
    BY <1>1, <2>1, FS_EmptySet
  <2> QED BY <1>1, <2>1, <2>2, <2>3
<1> QED BY <1>1, <1>3, <1>4, <1>5, KindStep

\* A part of c, as one of the two loops builds it.
Picked(q, c, s, n) ==
  /\ q \in Seq(DataSource)
  /\ Len(q) = Cardinality(Kind(c, s, n))
  /\ \A k \in Kind(c, s, n) : q[Cardinality(Kind(c, s, k))] = c[k]
  /\ \A h \in 1..Len(q) : \E k \in Kind(c, s, n) : q[h] = c[k]

LEMMA PickedGrows ==
  ASSUME NEW c \in Seq(DataSource), NEW s \in BOOLEAN, NEW n \in Nat, n + 1 <= Len(c),
         NEW q, Picked(q, c, s, n)
  PROVE  Picked(IF Scheduled(c[n + 1]) = s THEN Append(q, c[n + 1]) ELSE q, c, s, n + 1)
<1>1. /\ \A k \in Kind(c, s, n + 1) : k \in Kind(c, s, n) \/ k = n + 1
      /\ Kind(c, s, n) \subseteq Kind(c, s, n + 1)
      /\ Scheduled(c[n + 1]) = s => n + 1 \in Kind(c, s, n + 1)
      /\ Scheduled(c[n + 1]) # s => Kind(c, s, n + 1) = Kind(c, s, n)
  BY KindStep, ZenonT(40)
<1>2. c[n + 1] \in DataSource
  OBVIOUS
<1>3. CASE Scheduled(c[n + 1]) = s
  <2> DEFINE r == Append(q, c[n + 1])
  <2>1. /\ r \in Seq(DataSource) /\ Len(r) = Len(q) + 1 /\ r[Len(q) + 1] = c[n + 1]
        /\ \A i \in 1..Len(q) : r[i] = q[i]
        /\ Len(q) \in Nat
    BY <1>2 DEF Picked
  <2> HIDE DEF r
  <2>2. Len(r) = Cardinality(Kind(c, s, n + 1))
    <3>1. Cardinality(Kind(c, s, n + 1)) = Cardinality(Kind(c, s, n)) + 1
      BY <1>3, KindGrows, Zenon
    <3>2. Len(q) = Cardinality(Kind(c, s, n))
      BY DEF Picked
    <3> QED BY <2>1, <3>1, <3>2
  <2>3. ASSUME NEW k \in Kind(c, s, n + 1) PROVE r[Cardinality(Kind(c, s, k))] = c[k]
    <3>1. CASE k \in Kind(c, s, n)
      <4>1. Cardinality(Kind(c, s, k)) \in 1..Len(q)
        BY <3>1, KindGrows DEF Picked
      <4> QED BY <2>1, <3>1, <4>1 DEF Picked
    <3>2. CASE k = n + 1
      BY <2>1, <2>2, <3>2
    <3> QED BY <1>1, <3>1, <3>2
  <2>4. ASSUME NEW h \in 1..Len(r) PROVE \E k \in Kind(c, s, n + 1) : r[h] = c[k]
    <3>1. CASE h \in 1..Len(q)
      BY <1>1, <2>1, <3>1 DEF Picked
    <3>2. CASE h = Len(q) + 1
      BY <1>1, <1>3, <2>1, <3>2
    <3> QED BY <2>1, <3>1, <3>2
  <2>5. Picked(r, c, s, n + 1)
    BY <2>1, <2>2, <2>3, <2>4 DEF Picked
  <2> QED BY <1>3, <2>5 DEF r
<1>4. CASE Scheduled(c[n + 1]) # s
  <2>1. Kind(c, s, n + 1) = Kind(c, s, n)
    BY <1>1, <1>4
  <2>2. Picked(q, c, s, n + 1)
    BY <2>1 DEF Picked
  <2> QED BY <1>4, <2>2
<1> QED BY <1>3, <1>4

\* What the loops build of any configuration.
LEMMA ThosePicked ==
  ASSUME NEW c \in Seq(DataSource), NEW s \in BOOLEAN
  PROVE  Picked(Those(c, s), c, s, Len(c))
<1> DEFINE Step(q, k) == IF Scheduled(c[k]) = s THEN Append(q, c[k]) ELSE q
           Good(f, n) == /\ f \in [0..n -> Seq(DataSource)] /\ f[0] = <<>>
                         /\ \A k \in 1..n : f[k] = Step(f[k - 1], k)
           Builds(f) ==
             f = [k \in 0..Len(c) |->
                    IF k = 0 THEN <<>>
                    ELSE IF Scheduled(c[k]) = s THEN Append(f[k - 1], c[k]) ELSE f[k - 1]]
<1>1. \E f : Builds(f)
  <2> DEFINE T == {n \in Nat : n <= Len(c) => \E f : Good(f, n)}
  <2>1. 0 \in T
    <3>1. Good([k \in 0..0 |-> <<>>], 0)
      OBVIOUS
    <3> QED BY <3>1
  <2>2. ASSUME NEW n \in Nat, n \in T PROVE n + 1 \in T
    <3> HIDE DEF Good
    <3> SUFFICES ASSUME n + 1 <= Len(c) PROVE \E f : Good(f, n + 1)
      OBVIOUS
    <3>1. PICK f : Good(f, n)
      BY <2>2
    <3> USE DEF Good
    <3> DEFINE e == Step(f[n], n + 1)
               g == [k \in 0..(n + 1) |-> IF k = n + 1 THEN e ELSE f[k]]
    <3>2. e \in Seq(DataSource)
      <4>1. c[n + 1] \in DataSource /\ f[n] \in Seq(DataSource)
        BY <3>1
      <4> QED BY <4>1
    <3> HIDE DEF e
    <3>3. g \in [0..(n + 1) -> Seq(DataSource)] /\ g[0] = <<>>
      BY <3>1, <3>2
    <3>4. ASSUME NEW k \in 1..(n + 1) PROVE g[k] = Step(g[k - 1], k)
      <4>1. CASE k = n + 1
        BY <4>1 DEF e
      <4>2. CASE k # n + 1
        BY <3>1, <4>2
      <4> QED BY <4>1, <4>2
    <3> QED BY <3>3, <3>4
  <2>3. Nat \subseteq T
    <3> HIDE DEF T
    <3> QED BY <2>1, <2>2, NatInduct
  <2>4. PICK f : Good(f, Len(c))
    <3> HIDE DEF Good
    <3>1. Len(c) \in T
      BY <2>3
    <3> QED BY <3>1
  <2>5. ASSUME NEW k \in 0..Len(c)
        PROVE  f[k] = IF k = 0 THEN <<>>
                      ELSE IF Scheduled(c[k]) = s THEN Append(f[k - 1], c[k]) ELSE f[k - 1]
    <3>1. CASE k = 0
      BY <2>4, <3>1
    <3>2. CASE k # 0
      <4>1. k \in 1..Len(c)
        BY <3>2
      <4>2. f[k] = Step(f[k - 1], k)
        BY <2>4, <4>1, Zenon
      <4> QED BY <3>2, <4>2, Zenon
    <3> QED BY <3>1, <3>2
  <2>6. Builds(f)
    BY <2>4, <2>5
  <2> QED BY <2>6
<1>2. ASSUME NEW f, Builds(f) PROVE Picked(f[Len(c)], c, s, Len(c))
  <2> DEFINE T == {n \in Nat : n <= Len(c) => Picked(f[n], c, s, n)}
  <2>1. ASSUME NEW k \in 0..Len(c)
        PROVE  f[k] = IF k = 0 THEN <<>>
                      ELSE IF Scheduled(c[k]) = s THEN Append(f[k - 1], c[k]) ELSE f[k - 1]
    BY <1>2, Zenon
  <2> HIDE DEF Builds
  <2>2. 0 \in T
    <3>1. f[0] = <<>> /\ Kind(c, s, 0) = {}
      BY <2>1 DEF Kind
    <3>2. Cardinality(Kind(c, s, 0)) = 0
      BY KindGrows
    <3>3. Picked(<<>>, c, s, 0)
      BY <3>1, <3>2 DEF Picked
    <3> QED BY <3>1, <3>3
  <2>3. ASSUME NEW n \in Nat, n \in T PROVE n + 1 \in T
    <3> SUFFICES ASSUME n + 1 <= Len(c) PROVE Picked(f[n + 1], c, s, n + 1)
      OBVIOUS
    <3>1. Picked(f[n], c, s, n)
      BY <2>3
    <3>2. f[n + 1] = Step(f[n], n + 1)
      <4>1. n + 1 \in 0..Len(c) /\ n + 1 # 0 /\ n + 1 - 1 = n
        OBVIOUS
      <4> QED BY <2>1, <4>1
    <3> QED BY <3>1, <3>2, PickedGrows
  <2>4. Nat \subseteq T
    <3> HIDE DEF T
    <3> QED BY <2>2, <2>3, NatInduct
  <2> QED BY <2>4
<1>3. Those(c, s) = (CHOOSE f : Builds(f))[Len(c)]
  BY DEF Those
<1> HIDE DEF Builds
<1> QED BY <1>1, <1>2, <1>3

-----------------------------------------------------------------------------
(* The sources of a command.                                               *)

SourceTypes ==
  /\ cfg \in [Proc -> Seq(DataSource)]
  /\ atOnce \in [Proc -> Seq(DataSource)]
  /\ entries \in [Proc -> Seq(DataSource)]

\* What a command has done with its sources, by where it is.
Sources(p) ==
  LET c == cfg[p]
      command == flags[p].command
  IN  /\ \A k \in DOMAIN c : Valid(c[k])
      /\ atOnce[p] \in {<<>>, c, OnDemand(c)}
      /\ at[p] \in Before \cup {"run"} => atOnce[p] = <<>>
      /\ at[p] # "off" /\ command = "ingest" =>
           at[p] \notin {"register", "serving"} /\ atOnce[p] \in {<<>>, c}
      /\ at[p] \in {"register", "serving"} /\ command = "daemon" => atOnce[p] = OnDemand(c)
      /\ at[p] = "serving" /\ command = "daemon" => entries[p] = Those(c, TRUE)

SourceInv == SourceTypes /\ \A p \in Proc : Sources(p)

\* A step of one command.
LEMMA OthersStay ==
  ASSUME SourceInv, NEW p \in Proc, SourceTypes', Sources(p)',
         \A q \in Proc : q # p =>
           /\ at'[q] = at[q] /\ flags'[q] = flags[q] /\ cfg'[q] = cfg[q]
           /\ atOnce'[q] = atOnce[q] /\ entries'[q] = entries[q]
  PROVE  SourceInv'
<1> SUFFICES ASSUME NEW q \in Proc, q # p PROVE Sources(q)'
  BY DEF SourceInv
<1>1. Sources(q)
  BY DEF SourceInv
<1> QED BY <1>1 DEF Sources

\* A step that leaves the sources alone.
LEMMA OnlyMoves ==
  ASSUME SourceInv, TypeOK, NEW p \in Proc, NEW a, at' = [at EXCEPT ![p] = a],
         UNCHANGED <<flags, cfg, atOnce, entries>>,
         a \in {"register", "serving"} => a = at[p] \/ flags[p].command = "serve",
         a \in Before \cup {"run"} => at[p] \in Before \cup {"run"},
         a # "off" => at[p] # "off"
  PROVE  SourceInv'
<1>1. /\ at'[p] = a /\ \A q \in Proc : q # p => at'[q] = at[q]
      /\ flags' = flags /\ cfg' = cfg /\ atOnce' = atOnce /\ entries' = entries
  BY DEF TypeOK
<1>2. SourceTypes'
  BY <1>1 DEF SourceInv, SourceTypes
<1>3. Sources(p)'
  <2>1. Sources(p)
    BY DEF SourceInv
  <2> QED BY <1>1, <2>1 DEF Sources
<1> QED BY <1>1, <1>2, <1>3, OthersStay

LEMMA ThoseTypes ==
  ASSUME NEW c \in Seq(DataSource), NEW s \in BOOLEAN
  PROVE  Those(c, s) \in Seq(DataSource)
  BY ThosePicked DEF Picked

LEMMA SourcesKeep == ASSUME IInv, SourceInv, [Next]_vars PROVE SourceInv'
<1> USE DEF IInv, Goto
<1>0. TypeOK
  OBVIOUS
<1>1. ASSUME NEW p \in Proc, Launch(p) PROVE SourceInv'
  <2>1. /\ at' = [at EXCEPT ![p] = "start"] /\ cfg' = [cfg EXCEPT ![p] = <<>>]
        /\ atOnce' = [atOnce EXCEPT ![p] = <<>>] /\ entries' = [entries EXCEPT ![p] = <<>>]
        /\ \E f \in Flags : flags' = [flags EXCEPT ![p] = f]
    BY <1>1 DEF Launch
  <2>2. /\ at'[p] = "start" /\ cfg'[p] = <<>> /\ atOnce'[p] = <<>>
        /\ \A q \in Proc : q # p =>
             /\ at'[q] = at[q] /\ flags'[q] = flags[q] /\ cfg'[q] = cfg[q]
             /\ atOnce'[q] = atOnce[q] /\ entries'[q] = entries[q]
        /\ SourceTypes'
    BY <1>0, <2>1 DEF SourceInv, SourceTypes, TypeOK
  <2>3. Sources(p)'
    BY <2>2 DEF Sources
  <2> QED BY <2>2, <2>3, OthersStay
<1>2. ASSUME NEW p \in Proc, Begin(p) PROVE SourceInv'
  <2>1. PICK a \in {"config", "open", "off"} : at' = [at EXCEPT ![p] = a] /\ at[p] = "start"
    BY <1>2 DEF Begin
  <2> QED BY <1>2, <2>1, OnlyMoves DEF Begin, Before
<1>3. ASSUME NEW p \in Proc, Configure(p) PROVE SourceInv'
  <2>1. PICK file \in File :
          IF Loads(file) /\ flags[p].tmp # "blocked"
            THEN at' = [at EXCEPT ![p] = "open"] /\ cfg' = [cfg EXCEPT ![p] = file]
            ELSE at' = [at EXCEPT ![p] = "off"] /\ UNCHANGED cfg
    BY <1>3 DEF Configure
  <2>2. at[p] = "config" /\ UNCHANGED <<flags, atOnce, entries>> /\ file \in Seq(DataSource)
    BY <1>3, FileAssumption DEF Configure
  <2>3. CASE Loads(file) /\ flags[p].tmp # "blocked"
    <3>1. /\ at'[p] = "open" /\ cfg'[p] = file /\ atOnce'[p] = <<>>
          /\ \A q \in Proc : q # p => at'[q] = at[q] /\ cfg'[q] = cfg[q]
          /\ SourceTypes'
      BY <1>0, <2>1, <2>2, <2>3, ZenonT(40) DEF SourceInv, SourceTypes, TypeOK, Sources, Before
    <3>2. \A k \in DOMAIN file : Valid(file[k])
      BY <2>3 DEF Loads
    <3>3. Sources(p)'
      BY <3>1, <3>2 DEF Sources
    <3> QED BY <2>2, <3>1, <3>3, OthersStay
  <2>4. CASE ~(Loads(file) /\ flags[p].tmp # "blocked")
    <3>1. at' = [at EXCEPT ![p] = "off"] /\ UNCHANGED cfg
      BY <2>1, <2>4
    <3> QED BY <1>0, <2>2, <3>1, OnlyMoves DEF Before
  <2> QED BY <2>3, <2>4
<1>4. ASSUME NEW p \in Proc, OpenStore(p) PROVE SourceInv'
  <2>1. PICK a \in {"engine", "off"} : at' = [at EXCEPT ![p] = a] /\ at[p] = "open"
    BY <1>4 DEF OpenStore
  <2> QED BY <1>4, <2>1, OnlyMoves DEF OpenStore, Before
<1>5. ASSUME NEW p \in Proc, ChooseEngine(p) PROVE SourceInv'
  <2>1. PICK a \in {"closing", "serving", "run"} :
          /\ at' = [at EXCEPT ![p] = a] /\ at[p] = "engine"
          /\ a = "serving" => flags[p].command = "serve"
    BY <1>5 DEF ChooseEngine, Goto
  <2>2. UNCHANGED <<flags, cfg, atOnce, entries>>
    BY <1>5 DEF ChooseEngine
  <2>3. /\ a \in {"register", "serving"} => flags[p].command = "serve"
        /\ at[p] \in Before \cup {"run"} /\ at[p] # "off"
    BY <2>1 DEF Before
  <2> QED BY <1>0, <2>1, <2>2, <2>3, OnlyMoves
<1>6. ASSUME NEW p \in Proc, RunSources(p) PROVE SourceInv'
  <2> DEFINE a == IF flags[p].command = "ingest" THEN "closing" ELSE "register"
             o == IF flags[p].command = "ingest" THEN cfg[p] ELSE OnDemand(cfg[p])
  <2>1. /\ at' = [at EXCEPT ![p] = a] /\ atOnce' = [atOnce EXCEPT ![p] = o]
        /\ UNCHANGED <<flags, cfg, entries>>
    BY <1>6 DEF RunSources
  <2>2. o \in Seq(DataSource)
    BY ThoseTypes DEF SourceInv, SourceTypes, OnDemand
  <2> HIDE DEF o
  <2>3. /\ at'[p] = a /\ atOnce'[p] = o
        /\ \A q \in Proc : q # p => at'[q] = at[q] /\ atOnce'[q] = atOnce[q]
        /\ SourceTypes'
    BY <1>0, <2>1, <2>2 DEF SourceInv, SourceTypes, TypeOK
  <2>4. Sources(p)'
    <3>1. Sources(p)
      BY DEF SourceInv
    <3>2. \A k \in DOMAIN cfg[p] : Valid(cfg[p][k])
      BY <3>1 DEF Sources
    <3>3. a \notin Before \cup {"run", "serving", "off"} /\ cfg' = cfg /\ flags' = flags
      BY <2>1 DEF Before
    <3>4. CASE flags[p].command = "ingest"
      BY <2>3, <3>2, <3>3, <3>4 DEF Sources, o
    <3>5. CASE flags[p].command # "ingest"
      BY <2>3, <3>2, <3>3, <3>5 DEF Sources, o
    <3> QED BY <3>4, <3>5
  <2> QED BY <2>1, <2>3, <2>4, OthersStay
<1>7. ASSUME NEW p \in Proc, RegisterSources(p) PROVE SourceInv'
  <2>1. PICK a \in {"serving", "closing"} :
          /\ at' = [at EXCEPT ![p] = a] /\ at[p] = "register"
          /\ entries' = [entries EXCEPT ![p] = Those(cfg[p], TRUE)]
          /\ UNCHANGED <<flags, cfg, atOnce>>
    BY <1>7 DEF RegisterSources
  <2>2. Those(cfg[p], TRUE) \in Seq(DataSource)
    BY ThoseTypes DEF SourceInv, SourceTypes
  <2>3. /\ at'[p] = a /\ entries'[p] = Those(cfg[p], TRUE)
        /\ \A q \in Proc : q # p => at'[q] = at[q] /\ entries'[q] = entries[q]
        /\ SourceTypes'
    BY <1>0, <2>1, <2>2 DEF SourceInv, SourceTypes, TypeOK
  <2>4. Sources(p)'
    <3>1. Sources(p)
      BY DEF SourceInv
    <3>2. /\ a \notin Before \cup {"run", "register", "off"}
          /\ cfg' = cfg /\ flags' = flags /\ atOnce' = atOnce
      BY <2>1 DEF Before
    <3>3. /\ \A k \in DOMAIN cfg[p] : Valid(cfg[p][k])
          /\ flags[p].command # "ingest" /\ atOnce[p] \in {<<>>, cfg[p], OnDemand(cfg[p])}
          /\ flags[p].command = "daemon" => atOnce[p] = OnDemand(cfg[p])
      BY <2>1, <3>1 DEF Sources
    <3> QED BY <2>3, <3>2, <3>3 DEF Sources
  <2> QED BY <2>1, <2>3, <2>4, OthersStay
<1>8. ASSUME NEW p \in Proc, EndServing(p) \/ CloseStore(p) \/ Die(p) PROVE SourceInv'
  <2>1. PICK a \in {"closing", "off"} :
          at' = [at EXCEPT ![p] = a] /\ (a # "off" => at[p] # "off")
    BY <1>8 DEF EndServing, CloseStore, Die
  <2>2. UNCHANGED <<flags, cfg, atOnce, entries>>
    BY <1>8 DEF EndServing, CloseStore, Die
  <2> QED BY <1>0, <2>1, <2>2, OnlyMoves DEF Before
<1>9. CASE (\E p \in Proc : CallEngine(p)) \/ StartEngine \/ EndEngine \/ UNCHANGED vars
  <2>1. UNCHANGED <<at, flags, cfg, atOnce, entries>>
    BY <1>9 DEF CallEngine, StartEngine, EndEngine, vars
  <2>2. SourceTypes'
    BY <2>1 DEF SourceInv, SourceTypes
  <2>3. ASSUME NEW p \in Proc PROVE Sources(p)'
    <3>1. Sources(p)
      BY DEF SourceInv
    <3> QED BY <2>1, <3>1 DEF Sources
  <2> QED BY <2>2, <2>3 DEF SourceInv
<1> QED BY <1>1, <1>2, <1>3, <1>4, <1>5, <1>6, <1>7, <1>8, <1>9 DEF Next

\* Of any configuration, a command has begun or registered what its place says.
THEOREM SourceInvariance == Spec => []SourceInv
<1>1. Init => SourceInv
  BY DEF Init, SourceInv, SourceTypes, Sources
<1>2. IInv /\ SourceInv /\ [Next]_vars => SourceInv'
  BY SourcesKeep
<1> QED BY <1>1, <1>2, Invariance, PTL DEF Spec

\* The two loops split a configuration between them.
LEMMA Split ==
  ASSUME NEW c \in Seq(DataSource)
  PROVE  Cardinality(Kind(c, FALSE, Len(c))) + Cardinality(Kind(c, TRUE, Len(c))) = Len(c)
<1> DEFINE A == Kind(c, FALSE, Len(c))
           B == Kind(c, TRUE, Len(c))
<1>1. Len(c) \in Nat /\ A \cup B = 1..Len(c) /\ A \cap B = {}
  <2>1. \A j \in 1..Len(c) : Scheduled(c[j]) \in BOOLEAN
    BY DEF Scheduled
  <2> QED BY <2>1 DEF Kind
<1>2. IsFiniteSet(A) /\ IsFiniteSet(B) /\ Cardinality(A) \in Nat /\ Cardinality(B) \in Nat
  BY <1>1, KindGrows
<1> HIDE DEF A, B
<1>3. Cardinality(A \cup B) = Cardinality(A) + Cardinality(B) - Cardinality(A \cap B)
  BY <1>2, FS_Union
<1>4. Cardinality(1..Len(c)) = Len(c)
  <2>1. \A a, b \in Int : Cardinality(a..b) = IF a > b THEN 0 ELSE b - a + 1
    BY FS_Interval
  <2> QED BY <1>1, <2>1
<1>5. Cardinality(A) + Cardinality(B) = Len(c)
  <2>1. Cardinality(A \cap B) = 0
    BY <1>1, FS_EmptySet, Zenon
  <2>2. Cardinality(A \cup B) = Len(c)
    BY <1>1, <1>4, Zenon
  <2> QED BY <1>2, <1>3, <2>1, <2>2
<1> QED BY <1>5 DEF A, B

\* For any configuration: each source is begun at once or scheduled, one way
\* and in its turn, and none of a configuration that was refused.
THEOREM SourcesCoveredAlways == Spec => []SourcesCovered
<1>1. SourceInv => SourcesCovered
  <2> SUFFICES ASSUME SourceInv PROVE SourcesCovered
    OBVIOUS
  <2>1. ASSUME NEW p \in Proc, NEW k \in DOMAIN atOnce[p] PROVE Valid(atOnce[p][k])
    <3>1. Sources(p) /\ cfg[p] \in Seq(DataSource)
      BY DEF SourceInv, SourceTypes
    <3>2. CASE atOnce[p] = <<>> \/ atOnce[p] = cfg[p]
      BY <2>1, <3>1, <3>2 DEF Sources
    <3>3. CASE atOnce[p] = OnDemand(cfg[p])
      <4>1. Picked(atOnce[p], cfg[p], FALSE, Len(cfg[p]))
        BY <3>1, <3>3, ThosePicked DEF OnDemand
      <4>2. k \in 1..Len(atOnce[p])
        <5>1. atOnce[p] \in Seq(DataSource)
          BY DEF SourceInv, SourceTypes
        <5> QED BY <5>1
      <4>3. PICK j \in Kind(cfg[p], FALSE, Len(cfg[p])) : atOnce[p][k] = cfg[p][j]
        BY <4>1, <4>2 DEF Picked
      <4>4. j \in DOMAIN cfg[p]
        BY <3>1, <4>3 DEF Kind
      <4> QED BY <3>1, <4>3, <4>4 DEF Sources
    <3> QED BY <3>1, <3>2, <3>3 DEF Sources
  <2>2. ASSUME NEW p \in Proc, at[p] = "closing", flags[p].command = "ingest", atOnce[p] # <<>>
        PROVE  atOnce[p] = cfg[p]
    BY <2>2 DEF SourceInv, Sources
  <2>3. ASSUME NEW p \in Proc, at[p] = "serving", flags[p].command = "daemon"
        PROVE  LET c == cfg[p]
                   begun(k) == \E h \in DOMAIN atOnce[p] : atOnce[p][h] = c[k]
                   timed(k) == \E h \in DOMAIN entries[p] : entries[p][h] = c[k]
                   place(k) == Cardinality({j \in 1..k : Scheduled(c[j]) = Scheduled(c[k])})
               IN  /\ \A k \in DOMAIN c :
                        /\ begun(k) # timed(k)
                        /\ c[k] = IF timed(k) THEN entries[p][place(k)] ELSE atOnce[p][place(k)]
                   /\ Len(atOnce[p]) + Len(entries[p]) = Len(c)
    <3> DEFINE c == cfg[p]
               n == Len(c)
               begun(k) == \E h \in DOMAIN atOnce[p] : atOnce[p][h] = c[k]
               timed(k) == \E h \in DOMAIN entries[p] : entries[p][h] = c[k]
               place(k) == Cardinality({j \in 1..k : Scheduled(c[j]) = Scheduled(c[k])})
    <3>1. c \in Seq(DataSource) /\ n \in Nat /\ DOMAIN c = 1..n
      BY DEF SourceInv, SourceTypes
    <3>2. Picked(atOnce[p], c, FALSE, n) /\ Picked(entries[p], c, TRUE, n)
      BY <2>3, <3>1, ThosePicked DEF SourceInv, Sources, OnDemand
    <3> HIDE DEF c, n
    <3>3. /\ DOMAIN atOnce[p] = 1..Len(atOnce[p]) /\ DOMAIN entries[p] = 1..Len(entries[p])
          /\ Len(atOnce[p]) = Cardinality(Kind(c, FALSE, n))
          /\ Len(entries[p]) = Cardinality(Kind(c, TRUE, n))
      <4>1. atOnce[p] \in Seq(DataSource) /\ entries[p] \in Seq(DataSource)
        BY DEF SourceInv, SourceTypes
      <4>2. /\ Len(atOnce[p]) = Cardinality(Kind(c, FALSE, n))
            /\ Len(entries[p]) = Cardinality(Kind(c, TRUE, n))
        BY <3>2, Zenon DEF Picked
      <4>3. \A q \in Seq(DataSource) : DOMAIN q = 1..Len(q)
        OBVIOUS
      <4> QED BY <4>1, <4>2, <4>3, Zenon
    <3>4. \A h \in DOMAIN atOnce[p] : ~Scheduled(atOnce[p][h])
      BY <3>2, <3>3 DEF Picked, Kind
    <3>5. \A h \in DOMAIN entries[p] : Scheduled(entries[p][h])
      BY <3>2, <3>3 DEF Picked, Kind
    <3>6. ASSUME NEW k \in 1..n, Scheduled(c[k])
          PROVE  /\ timed(k) /\ ~begun(k) /\ c[k] = entries[p][place(k)]
      <4>1. k \in Kind(c, TRUE, n) /\ place(k) = Cardinality(Kind(c, TRUE, k))
        BY <3>6 DEF Kind, Scheduled
      <4>2. place(k) \in DOMAIN entries[p]
        BY <3>1, <3>3, <4>1, KindGrows
      <4>3. c[k] = entries[p][place(k)]
        BY <3>2, <4>1 DEF Picked
      <4> HIDE DEF place
      <4> QED BY <3>4, <3>6, <4>2, <4>3
    <3>7. ASSUME NEW k \in 1..n, ~Scheduled(c[k])
          PROVE  /\ ~timed(k) /\ begun(k) /\ c[k] = atOnce[p][place(k)]
      <4>1. k \in Kind(c, FALSE, n) /\ place(k) = Cardinality(Kind(c, FALSE, k))
        BY <3>7 DEF Kind, Scheduled
      <4>2. place(k) \in DOMAIN atOnce[p]
        BY <3>1, <3>3, <4>1, KindGrows
      <4>3. c[k] = atOnce[p][place(k)]
        BY <3>2, <4>1 DEF Picked
      <4> HIDE DEF place
      <4> QED BY <3>5, <3>7, <4>2, <4>3
    <3>8. Len(atOnce[p]) + Len(entries[p]) = n
      BY <3>1, <3>3, Split DEF n
    <3> HIDE DEF begun, timed, place
    <3>9. \A k \in 1..n : /\ begun(k) # timed(k)
                          /\ c[k] = IF timed(k) THEN entries[p][place(k)] ELSE atOnce[p][place(k)]
      BY <3>6, <3>7
    <3> QED BY <3>1, <3>8, <3>9 DEF c, n, begun, timed, place
  <2> QED BY <2>1, <2>2, <2>3 DEF SourcesCovered
<1> QED BY <1>1, SourceInvariance, PTL
=============================================================================
