---------------------------- MODULE ShadowProofs ----------------------------
(***************************************************************************)
(* Proofs about Shadow, for any number of stations, workers, fields and    *)
(* repetitions: which documents can take a station down                    *)
(* (FaultsAlwaysExplained), and that a table between callbacks is what the *)
(* broker knows (TablesAgree).                                             *)
(***************************************************************************)
EXTENDS Shadow, TLAPS

Docs == [Fields -> Values \cup {Absent}]
Messages == [thing : Things \cup Foreign, doc : Docs]
Whys == {"running", "topic", "memory", "row", "field"}
Halts == [thing : Things \cup Foreign \cup {None}, why : Whys]
Jobs == [thing : Things, doc : Docs, unstored : SUBSET Fields, alone : BOOLEAN]

TypeInv ==
  /\ row \in [Reporters -> [Fields -> Values]]
  /\ outbox \in [Reporters -> SUBSET [times : Nat, reported : Docs]]
  /\ provisioned \in SUBSET Things
  /\ shadow \in [Things -> Docs]
  /\ subscribed \in SUBSET Listeners
  /\ wire \in [Listeners -> Seq(Messages)]
  /\ job \in [Listeners -> [Workers -> Jobs \cup {Idle}]]
  /\ table \in [Listeners -> [Things -> [Fields -> Values]]]
  /\ settled \in [Listeners -> SUBSET Things]
  /\ halted \in [Listeners -> Halts]

-----------------------------------------------------------------------------
(* What a step does, with the details no proof needs left out               *)

\* What listeners see of the world, and what a listener is.
Outside == <<shadow, wire, provisioned>>
Inside == <<subscribed, job, table, settled, halted>>

\* A document is sent; if it is about a thing of the table it is its shadow.
Broadcast(d) ==
  /\ wire' = Sent(d)
  /\ shadow' \in [Things -> Docs]
  /\ \A t \in Things : shadow'[t] = IF t = d.thing THEN d.doc ELSE shadow[t]
  /\ UNCHANGED <<Inside, provisioned>>

LEMMA FreshIsDoc == Fresh \in [Fields -> Values] /\ Fresh \in Docs /\ Unknown \in Docs
  BY ShadowAssumption DEF Fresh, Unknown, Docs

LEMMA MessageIsDoc ==
  ASSUME TypeInv, NEW r \in Reporters, NEW c
  PROVE  Message(r, c) \in [times : Nat, reported : Docs]
  <1>1. row[r] \in [Fields -> Values]
    BY DEF TypeInv
  <1>2. Message(r, c).reported \in Docs
    BY <1>1 DEF Message, Docs
  <1> QED
    BY <1>2 DEF Message

\* A document of the thing r, with the fields of a message on top.
LEMMA MergedIsDoc ==
  ASSUME TypeInv, NEW t \in Things, NEW m \in Docs
  PROVE  /\ Merged(t, m) \in Docs
         /\ \A f \in Fields : Merged(t, m)[f] = Absent => shadow[t][f] = Absent
  <1>1. shadow[t] \in Docs
    BY DEF TypeInv
  <1> QED
    BY <1>1 DEF Merged, Docs

LEMMA AcceptBroadcasts ==
  ASSUME TypeInv, NEW r \in Reporters, NEW m \in outbox[r], Accept(r, m)
  PROVE  /\ r \in Things /\ m.reported \in Docs
         /\ Broadcast([thing |-> r, doc |-> Merged(r, m.reported)])
  <1>1. r \in Things /\ m.reported \in Docs
    BY ShadowAssumption DEF TypeInv
  <1>2. shadow' = [shadow EXCEPT ![r] = Merged(r, m.reported)]
    BY DEF Accept
  <1>3. Merged(r, m.reported) \in Docs
    BY <1>1, MergedIsDoc
  <1>4. wire' = Sent([thing |-> r, doc |-> Merged(r, m.reported)])
    BY DEF Accept, Document
  <1>5. UNCHANGED <<Inside, provisioned>>
    BY DEF Accept, Inside, listenerVars
  <1> QED
    BY <1>1, <1>2, <1>3, <1>4, <1>5 DEF Broadcast, TypeInv

LEMMA GetBroadcasts ==
  ASSUME TypeInv, NEW s \in Listeners, NEW t \in Things, Get(s, t), wire' # wire
  PROVE  Broadcast([thing |-> t, doc |-> shadow[t]])
  BY DEF Get, Broadcast, Inside, reporterVars, TypeInv

LEMMA ForeignBroadcasts ==
  ASSUME TypeInv, ForeignReports
  PROVE  \E t \in Foreign : Broadcast([thing |-> t, doc |-> Fresh])
  <1>1. PICK t \in Foreign : wire' = Sent([thing |-> t, doc |-> Fresh])
    BY DEF ForeignReports
  <1>2. t \notin Things
    BY ShadowAssumption
  <1> QED
    BY <1>1, <1>2 DEF ForeignReports, Broadcast, Inside, listenerVars, TypeInv

\* What each listener gets of a document.
LEMMA SentEffect ==
  ASSUME TypeInv, NEW d \in Messages, Broadcast(d)
  PROVE  /\ wire' \in [Listeners -> Seq(Messages)]
         /\ \A s \in Listeners :
              wire'[s] = IF s \in subscribed /\ Up(s) THEN Append(wire[s], d) ELSE wire[s]
  BY DEF Broadcast, Sent, TypeInv

(***************************************************************************)
(* Every step is one of these.                                             *)
(***************************************************************************)
Silent == UNCHANGED <<Outside, Inside>>
Broadcasts ==
  \/ \E r \in Reporters : \E m \in Docs :
       r \in Things /\ Broadcast([thing |-> r, doc |-> Merged(r, m)])
  \/ \E t \in Things : Broadcast([thing |-> t, doc |-> shadow[t]])
  \/ \E t \in Foreign : Broadcast([thing |-> t, doc |-> Fresh])
Callbacks ==
  \E s \in Listeners, w \in Workers :
    CallbackStart(s, w) \/ \E f \in Fields : CallbackStore(s, w, f)

LEMMA Steps ==
  ASSUME TypeInv, [Next]_vars
  PROVE  \/ Silent
         \/ Broadcasts
         \/ \E s \in Listeners : ModifySubscriptions(s)
         \/ Callbacks
  <1>1. CASE UNCHANGED vars
    BY <1>1 DEF vars, Silent, Outside, Inside, listenerVars
  <1>2. CASE \E r \in Reporters : Report(r)
    BY <1>2 DEF Report, Change, PublishMessage, Silent, Outside, Inside, listenerVars
  <1>3. CASE \E r \in Reporters : Library(r)
    <2>0. PICK r \in Reporters : Library(r)
      BY <1>3
    <2>1. PICK m \in outbox[r] : Accept(r, m) \/ Forget(r, m)
      BY <2>0 DEF Library
    <2>2. CASE Accept(r, m)
      BY <2>2, AcceptBroadcasts DEF Broadcasts
    <2>3. CASE Forget(r, m)
      BY <2>3 DEF Forget, Silent, Outside, Inside, listenerVars
    <2> QED
      BY <2>1, <2>2, <2>3
  <1>4. CASE \E s \in Listeners, t \in Things : Get(s, t)
    <2>1. PICK s \in Listeners, t \in Things : Get(s, t)
      BY <1>4
    <2>2. CASE wire' = wire
      BY <2>1, <2>2 DEF Get, Silent, Outside, Inside, reporterVars
    <2>3. CASE wire' # wire
      BY <2>1, <2>3, GetBroadcasts DEF Broadcasts
    <2> QED
      BY <2>2, <2>3
  <1>5. CASE ForeignReports
    BY <1>5, ForeignBroadcasts DEF Broadcasts
  <1> QED
    BY <1>1, <1>2, <1>3, <1>4, <1>5 DEF Next, Listen, Callback, Callbacks

-----------------------------------------------------------------------------
(* Types                                                                    *)

LEMMA InitTypes == Init => TypeInv
  <1> SUFFICES ASSUME Init PROVE TypeInv
    OBVIOUS
  <1>1. shadow \in [Things -> Docs]
    BY InitialAssumption DEF Init, Docs
  <1>2. table \in [Listeners -> [Things -> [Fields -> Values]]]
        /\ row \in [Reporters -> [Fields -> Values]]
    BY FreshIsDoc DEF Init
  <1>3. wire \in [Listeners -> Seq(Messages)]
    BY DEF Init
  <1>4. job \in [Listeners -> [Workers -> Jobs \cup {Idle}]]
    BY DEF Init
  <1>5. outbox \in [Reporters -> SUBSET [times : Nat, reported : Docs]]
    BY DEF Init
  <1>6. halted \in [Listeners -> Halts]
    BY DEF Init, Running, Halts, Whys
  <1> QED
    BY <1>1, <1>2, <1>3, <1>4, <1>5, <1>6 DEF Init, TypeInv

\* The part of the types that only reporters change.
ReporterTypes ==
  /\ row \in [Reporters -> [Fields -> Values]]
  /\ outbox \in [Reporters -> SUBSET [times : Nat, reported : Docs]]

LEMMA ReporterTypesKept ==
  ASSUME TypeInv, Next
  PROVE  ReporterTypes'
  <1> USE DEF ReporterTypes
  <1>0. ReporterTypes
    BY DEF TypeInv
  <1>1. CASE \E r \in Reporters : Change(r)
    <2>1. PICK r \in Reporters : Change(r)
      BY <1>1
    <2>2. PICK f \in Weather, v \in Values : row' = [row EXCEPT ![r][f] = v]
      BY <2>1 DEF Change
    <2>3. f \in Fields
      BY DEF Fields
    <2> QED
      BY <1>0, <2>1, <2>2, <2>3 DEF Change
  <1>2. CASE \E r \in Reporters, c \in Commands : PublishMessage(r, c)
    <2>1. PICK r \in Reporters, c \in Commands : PublishMessage(r, c)
      BY <1>2
    <2>2. Message(r, c) \in [times : Nat, reported : Docs]
      BY MessageIsDoc
    <2>3. row' = row
      BY <2>1 DEF PublishMessage
    <2>4. CASE outbox' = outbox
      BY <1>0, <2>3, <2>4
    <2>5. CASE outbox' = [outbox EXCEPT ![r] = @ \cup {Message(r, c)}]
      BY <1>0, <2>2, <2>3, <2>5
    <2> QED
      BY <2>1, <2>4, <2>5 DEF PublishMessage
  <1>3. CASE \E r \in Reporters : Library(r)
    <2>1. PICK r \in Reporters : Library(r)
      BY <1>3
    <2>2. PICK m \in outbox[r] : Accept(r, m) \/ Forget(r, m)
      BY <2>1 DEF Library
    <2>3. row' = row
      BY <2>2 DEF Accept, Forget
    <2>4. m \in [times : Nat, reported : Docs]
      BY <1>0, <2>2
    <2>5. CASE Accept(r, m)
      <3> DEFINE n == [m EXCEPT !.times = m.times + 1]
      <3>1. n \in [times : Nat, reported : Docs]
        <4>1. m.times \in Nat /\ m.times + 1 \in Nat
          BY <2>4
        <4> QED
          BY <2>4, <4>1, Zenon
      <3>2. outbox' = [outbox EXCEPT ![r] = (@ \ {m}) \cup {n}]
        BY <2>5 DEF Accept
      <3> HIDE DEF n
      <3> QED
        BY <1>0, <2>3, <3>1, <3>2
    <2>6. CASE Forget(r, m)
      BY <1>0, <2>3, <2>6 DEF Forget
    <2> QED
      BY <2>2, <2>5, <2>6
  <1>4. CASE UNCHANGED <<row, outbox>>
    BY <1>0, <1>4
  <1>5. CASE ForeignReports \/ \E s \in Listeners : Listen(s)
    <2>1. ASSUME NEW s \in Listeners, NEW w \in Workers, Callback(s, w) PROVE UNCHANGED reporterVars
      BY <2>1, Zenon DEF Callback, CallbackStart, CallbackStore
    <2>2. UNCHANGED reporterVars
      BY <1>5, <2>1, Zenon DEF ForeignReports, Listen, ModifySubscriptions, Get
    <2> QED
      BY <1>4, <2>2 DEF reporterVars
  <1> QED
    <2>1. CASE \E r \in Reporters : Report(r)
      BY <1>1, <1>2, <2>1 DEF Report
    <2> QED
      BY <1>3, <1>5, <2>1 DEF Next

\* A callback about to run belongs to a document at the head of the wire.
LEMMA StartTypes ==
  ASSUME TypeInv, NEW s \in Listeners, NEW w \in Workers, CallbackStart(s, w)
  PROVE  /\ wire[s] \in Seq(Messages) /\ wire[s] # <<>>
         /\ Head(wire[s]) \in Messages /\ Tail(wire[s]) \in Seq(Messages)
  BY DEF CallbackStart, TypeInv

(***************************************************************************)
(* A callback that starts takes the station down, drops its document, or   *)
(* begins to store it.                                                     *)
(***************************************************************************)
Drop(s) ==
  /\ wire' = [wire EXCEPT ![s] = Tail(@)]
  /\ UNCHANGED <<toGet, job, table, settled, halted>>

LEMMA StartCases ==
  ASSUME TypeInv, NEW s \in Listeners, NEW w \in Workers, CallbackStart(s, w),
         NEW t, t = Head(wire[s]).thing
  PROVE  /\ t \in Things \cup Foreign
         /\ \/ \E why \in Whys : Halt(s, t, why) /\ (why = "memory" \/ t \in Foreign)
            \/ (t = s \/ t \notin Things) /\ Drop(s)
            \/ t \in Things \ {s} /\ StartStoring(s, w)
  <1>1. t \in Things \cup Foreign
    BY StartTypes DEF Messages
  <1>2. LongNames \subseteq Foreign /\ PastTable \subseteq Foreign /\ Foreign \cap Things = {}
    BY ShadowAssumption
  <1>3. \/ t \in LongNames /\ Halt(s, t, "topic")
        \/ Halt(s, t, "memory")
        \/ t \in {s} \cup (Foreign \ (LongNames \cup PastTable)) /\ Drop(s)
        \/ t \in PastTable /\ Halt(s, t, "row")
        \/ t \in Things \ {s} /\ StartStoring(s, w)
    BY Zenon DEF CallbackStart, Drop
  <1>4. CASE t \in LongNames /\ Halt(s, t, "topic")
    BY <1>1, <1>2, <1>4 DEF Whys
  <1>5. CASE Halt(s, t, "memory")
    BY <1>1, <1>5 DEF Whys
  <1>6. CASE t \in {s} \cup (Foreign \ (LongNames \cup PastTable)) /\ Drop(s)
    BY <1>1, <1>2, <1>6
  <1>7. CASE t \in PastTable /\ Halt(s, t, "row")
    BY <1>1, <1>2, <1>7 DEF Whys
  <1> QED
    BY <1>1, <1>3, <1>4, <1>5, <1>6, <1>7

LEMMA HaltTypes ==
  ASSUME TypeInv, NEW s \in Listeners, NEW t \in Things \cup Foreign, NEW why \in Whys,
         Halt(s, t, why), UNCHANGED <<reporterVars, shadow, subscribed, provisioned>>
  PROVE  TypeInv'
  <1>1. job' \in [Listeners -> [Workers -> Jobs \cup {Idle}]]
    BY DEF Halt, TypeInv
  <1>2. table' \in [Listeners -> [Things -> [Fields -> Values]]]
    BY FreshIsDoc DEF Halt, TypeInv
  <1>3. wire' \in [Listeners -> Seq(Messages)]
    BY DEF Halt, TypeInv
  <1>4. settled' \in [Listeners -> SUBSET Things] /\ halted' \in [Listeners -> Halts]
    BY DEF Halt, TypeInv, Halts
  <1> QED
    BY <1>1, <1>2, <1>3, <1>4 DEF TypeInv, reporterVars

LEMMA CallbackTypes ==
  ASSUME TypeInv, Callbacks
  PROVE  TypeInv'
  <1>1. PICK s \in Listeners, w \in Workers :
          CallbackStart(s, w) \/ \E f \in Fields : CallbackStore(s, w, f)
    BY DEF Callbacks
  <1>2. CASE CallbackStart(s, w)
    <2> DEFINE d == Head(wire[s])
               others == Others(s, w, d.thing)
               j == [v \in Workers |->
                       IF v = w THEN [thing |-> d.thing, doc |-> d.doc, unstored |-> Fields,
                                      alone |-> others = {}]
                       ELSE IF v \in others THEN [job[s][v] EXCEPT !.alone = FALSE]
                       ELSE job[s][v]]
    <2>1. d \in Messages /\ Tail(wire[s]) \in Seq(Messages)
      BY <1>2, StartTypes
    <2>0. UNCHANGED <<reporterVars, shadow, subscribed, provisioned>>
      BY <1>2 DEF CallbackStart
    <2>2. CASE \E why \in Whys : Halt(s, d.thing, why)
      BY <2>0, <2>1, <2>2, HaltTypes DEF Messages
    <2>3. CASE d.thing \in Things /\ StartStoring(s, w)
      <3>1. ASSUME NEW v \in others PROVE [job[s][v] EXCEPT !.alone = FALSE] \in Jobs
        <4>1. v \in Workers /\ job[s][v].thing \in Things /\ job[s][v] \in Jobs \cup {Idle}
          BY <2>3 DEF Others, TypeInv
        <4>2. job[s][v] \in Jobs
          BY <4>1, ShadowAssumption DEF Idle
        <4> QED
          BY <4>2 DEF Jobs
      <3>2. [thing |-> d.thing, doc |-> d.doc, unstored |-> Fields, alone |-> others = {}] \in Jobs
        BY <2>1, <2>3 DEF Messages, Jobs
      <3>3. j \in [Workers -> Jobs \cup {Idle}]
        BY <3>1, <3>2 DEF TypeInv
      <3>4. job' = [job EXCEPT ![s] = j] /\ wire' = [wire EXCEPT ![s] = Tail(@)]
        BY <2>3 DEF StartStoring
      <3>5. UNCHANGED <<reporterVars, shadow, subscribed, provisioned, table, settled, halted>>
        BY <2>0, <2>3 DEF StartStoring
      <3> HIDE DEF j
      <3> QED
        BY <2>1, <3>3, <3>4, <3>5 DEF TypeInv, reporterVars
    <2>4. CASE Drop(s)
      BY <2>0, <2>1, <2>4 DEF Drop, TypeInv, reporterVars
    <2> HIDE DEF d, j, others
    <2>5. d = Head(wire[s])
      BY DEF d
    <2> QED
      BY <1>2, <2>2, <2>3, <2>4, <2>5, StartCases
  <1>3. ASSUME NEW f \in Fields, CallbackStore(s, w, f)
        PROVE  TypeInv'
    <2> DEFINE j == job[s][w]
    <2>1. j \in Jobs
      BY <1>3 DEF CallbackStore, TypeInv
    <2>2. CASE j.doc[f] = Absent
      <3>1. Halt(s, j.thing, "field") /\ UNCHANGED <<reporterVars, shadow, subscribed, provisioned>>
        BY <1>3, <2>2 DEF CallbackStore
      <3>2. j.thing \in Things \cup Foreign /\ "field" \in Whys
        BY <2>1 DEF Jobs, Whys
      <3> QED
        BY <3>1, <3>2, HaltTypes
    <2>3. CASE j.doc[f] # Absent
      <3>1. j.doc[f] \in Values /\ j.thing \in Things
        BY <2>1, <2>3 DEF Jobs, Docs
      <3>2. [j EXCEPT !.unstored = j.unstored \ {f}] \in Jobs
        BY <2>1 DEF Jobs
      <3> DEFINE n == IF j.unstored \ {f} = {} THEN Idle
                      ELSE [j EXCEPT !.unstored = j.unstored \ {f}]
      <3>3. n \in Jobs \cup {Idle}
        BY <3>2
      <3>4. table' = [table EXCEPT ![s][j.thing][f] = j.doc[f]]
            /\ UNCHANGED <<wire, halted, reporterVars, shadow, subscribed, provisioned>>
        BY <1>3, <2>3 DEF CallbackStore
      <3>5. job' = [job EXCEPT ![s][w] = n]
        <4>1. /\ j.doc[f] # Absent
              /\ job' = [job EXCEPT ![s][w] = IF j.unstored \ {f} = {} THEN Idle
                                              ELSE [j EXCEPT !.unstored = j.unstored \ {f}]]
          BY <1>3, <2>3, Zenon DEF CallbackStore
        <4> QED
          BY <4>1
      <3>6. settled' \in [Listeners -> SUBSET Things]
        <4> DEFINE S == IF j.unstored \ {f} # {} THEN settled[s]
                        ELSE IF j.alone THEN settled[s] \cup {j.thing} ELSE settled[s] \ {j.thing}
        <4>1. S \in SUBSET Things
          BY <3>1 DEF TypeInv
        <4>2. settled' = [settled EXCEPT ![s] = S]
          BY <1>3, <2>3 DEF CallbackStore
        <4> HIDE DEF S
        <4> QED
          BY <4>1, <4>2 DEF TypeInv
      <3> HIDE DEF n
      <3>7. job' \in [Listeners -> [Workers -> Jobs \cup {Idle}]]
        BY <3>3, <3>5 DEF TypeInv
      <3>8. table' \in [Listeners -> [Things -> [Fields -> Values]]]
        BY <3>1, <3>4 DEF TypeInv
      <3> QED
        BY <3>4, <3>6, <3>7, <3>8 DEF TypeInv, reporterVars
    <2> QED
      BY <2>2, <2>3
  <1> QED
    BY <1>1, <1>2, <1>3

LEMMA TypesKept == TypeInv /\ [Next]_vars => TypeInv'
  <1> SUFFICES ASSUME TypeInv, [Next]_vars PROVE TypeInv'
    OBVIOUS
  <1>1. ReporterTypes'
    BY ReporterTypesKept DEF vars, reporterVars, ReporterTypes, TypeInv
  <1>2. CASE Silent
    BY <1>1, <1>2 DEF Silent, Outside, Inside, ReporterTypes, TypeInv
  <1>3. CASE Broadcasts
    <2>1. PICK d \in Messages : Broadcast(d)
      BY <1>3, MergedIsDoc, FreshIsDoc DEF Broadcasts, Messages, TypeInv
    <2> QED
      BY <1>1, <2>1, SentEffect DEF Broadcast, Inside, ReporterTypes, TypeInv
  <1>4. CASE \E s \in Listeners : ModifySubscriptions(s)
    BY <1>1, <1>4 DEF ModifySubscriptions, ReporterTypes, TypeInv
  <1>5. CASE Callbacks
    BY <1>5, CallbackTypes
  <1> QED
    BY <1>2, <1>3, <1>4, <1>5, Steps

\* The types of the variables the proofs depend on.
THEOREM TypesAlways == Spec => []TypeInv
  BY InitTypes, TypesKept, PTL DEF Spec

-----------------------------------------------------------------------------
(* Which documents take a station down                                      *)

(***************************************************************************)
(* A thing whose shadow had all fields keeps them, because messages only   *)
(* add fields; so have its documents, wherever they are.                   *)
(***************************************************************************)
WholeShadows == \A t \in provisioned : Whole(shadow[t])
WholeWires ==
  \A s \in Listeners : \A i \in 1..Len(wire[s]) :
    wire[s][i].thing \in provisioned => Whole(wire[s][i].doc)
WholeJobs ==
  \A s \in Listeners, w \in Workers :
    job[s][w].thing \in provisioned => Whole(job[s][w].doc)
FaultInv == WholeShadows /\ WholeWires /\ WholeJobs /\ FaultsExplained

LEMMA InitFaults == Init => FaultInv
  <1> SUFFICES ASSUME Init PROVE FaultInv
    OBVIOUS
  <1>1. WholeShadows
    BY DEF Init, WholeShadows
  <1>2. WholeWires
    BY DEF Init, WholeWires
  <1>3. WholeJobs
    <2>1. \A s \in Listeners, w \in Workers : job[s][w].thing = None
      BY DEF Init, Idle
    <2>2. None \notin provisioned
      BY ShadowAssumption DEF Init
    <2> QED
      BY <2>1, <2>2 DEF WholeJobs
  <1>4. FaultsExplained
    BY DEF Init, FaultsExplained, Up, Running
  <1> QED
    BY <1>1, <1>2, <1>3, <1>4 DEF FaultInv

LEMMA BroadcastFaults ==
  ASSUME TypeInv, FaultInv, NEW d \in Messages, Broadcast(d),
         d.thing \in provisioned => Whole(d.doc)
  PROVE  FaultInv'
  <1>1. provisioned' = provisioned /\ job' = job /\ halted' = halted
    BY DEF Broadcast, Inside
  <1>2. WholeShadows'
    BY <1>1 DEF Broadcast, FaultInv, WholeShadows, Whole, TypeInv
  <1>3. WholeWires'
    <2> SUFFICES ASSUME NEW s \in Listeners, NEW i \in 1..Len(wire'[s]),
                        wire'[s][i].thing \in provisioned
                 PROVE  Whole(wire'[s][i].doc)
      BY <1>1 DEF WholeWires, Whole
    <2>1. wire[s] \in Seq(Messages)
      BY DEF TypeInv
    <2>2. CASE wire'[s] = wire[s]
      BY <2>2 DEF FaultInv, WholeWires
    <2>3. CASE wire'[s] = Append(wire[s], d)
      <3>1. CASE i = Len(wire[s]) + 1
        BY <2>1, <2>3, <3>1
      <3>2. CASE i \in 1..Len(wire[s])
        BY <2>1, <2>3, <3>2 DEF FaultInv, WholeWires
      <3> QED
        BY <2>1, <2>3, <3>1, <3>2
    <2> QED
      BY <2>2, <2>3, SentEffect
  <1>4. WholeJobs' /\ FaultsExplained'
    BY <1>1 DEF FaultInv, WholeJobs, FaultsExplained, Whole, Up
  <1> QED
    BY <1>2, <1>3, <1>4 DEF FaultInv

\* A station that goes down leaves no documents behind.
LEMMA HaltFaults ==
  ASSUME TypeInv, FaultInv, NEW s \in Listeners,
         NEW t, NEW why, Halt(s, t, why), UNCHANGED <<shadow, provisioned>>,
         why = "memory" \/ t \in Foreign \cup (Things \ provisioned)
  PROVE  FaultInv'
  <1>1. WholeShadows'
    BY DEF FaultInv, WholeShadows, Whole
  <1>2. WholeWires'
    <2> SUFFICES ASSUME NEW r \in Listeners, NEW i \in 1..Len(wire'[r]),
                        wire'[r][i].thing \in provisioned
                 PROVE  Whole(wire'[r][i].doc)
      BY DEF WholeWires, Whole
    <2>1. wire'[r] = IF r = s THEN <<>> ELSE wire[r]
      BY DEF Halt, TypeInv
    <2> QED
      BY <2>1 DEF FaultInv, WholeWires
  <1>3. WholeJobs'
    <2> SUFFICES ASSUME NEW r \in Listeners, NEW w \in Workers,
                        job'[r][w].thing \in provisioned
                 PROVE  Whole(job'[r][w].doc)
      BY DEF WholeJobs, Whole
    <2>1. CASE r = s
      <3>1. job'[r][w].thing = None
        BY <2>1 DEF Halt, TypeInv, Idle
      <3> QED
        BY <3>1, ShadowAssumption DEF TypeInv
    <2>2. CASE r # s
      BY <2>2 DEF Halt, TypeInv, FaultInv, WholeJobs
    <2> QED
      BY <2>1, <2>2
  <1>4. FaultsExplained'
    <2>1. halted' = [halted EXCEPT ![s] = [thing |-> t, why |-> why]]
      BY DEF Halt
    <2> QED
      BY <2>1 DEF TypeInv, FaultInv, FaultsExplained, Up
  <1> QED
    BY <1>1, <1>2, <1>3, <1>4 DEF FaultInv

LEMMA CallbackFaults ==
  ASSUME TypeInv, FaultInv, Callbacks
  PROVE  FaultInv'
  <1>1. PICK s \in Listeners, w \in Workers :
          CallbackStart(s, w) \/ \E f \in Fields : CallbackStore(s, w, f)
    BY DEF Callbacks
  <1>2. UNCHANGED <<shadow, provisioned>>
    BY <1>1, Zenon DEF CallbackStart, CallbackStore
  <1>3. WholeShadows'
    BY <1>2 DEF FaultInv, WholeShadows, Whole
  <1>4. CASE CallbackStart(s, w)
    <2> DEFINE d == Head(wire[s])
    <2>1. d \in Messages /\ wire[s] \in Seq(Messages) /\ wire[s] # <<>>
      BY <1>4, StartTypes
    <2>2. CASE \E why \in Whys : Halt(s, d.thing, why) /\ (why = "memory" \/ d.thing \in Foreign)
      BY <1>2, <2>2, HaltFaults
    <2>3. ASSUME wire' = [wire EXCEPT ![s] = Tail(@)], halted' = halted
          PROVE  WholeWires' /\ FaultsExplained'
      <3>1. WholeWires'
        <4> SUFFICES ASSUME NEW r \in Listeners, NEW i \in 1..Len(wire'[r]),
                            wire'[r][i].thing \in provisioned
                     PROVE  Whole(wire'[r][i].doc)
          BY <1>2 DEF WholeWires, Whole
        <4>1. CASE r # s
          BY <2>3, <4>1 DEF TypeInv, FaultInv, WholeWires
        <4>2. CASE r = s
          <5>1. wire'[r] = Tail(wire[s]) /\ i \in 1..Len(wire[s]) - 1 /\ wire'[r][i] = wire[s][i + 1]
            BY <2>1, <2>3, <4>2 DEF TypeInv
          <5>2. Len(wire[s]) \in Nat /\ i + 1 \in 1..Len(wire[s])
            BY <2>1, <5>1
          <5> QED
            BY <5>1, <5>2 DEF FaultInv, WholeWires
        <4> QED
          BY <4>1, <4>2
      <3>2. FaultsExplained'
        BY <1>2, <2>3 DEF FaultInv, FaultsExplained, Up
      <3> QED
        BY <3>1, <3>2
    <2>4. CASE Drop(s)
      <3>1. WholeJobs'
        BY <1>2, <2>4 DEF Drop, FaultInv, WholeJobs, Whole
      <3> QED
        BY <1>3, <2>3, <2>4, <3>1 DEF Drop, FaultInv
    <2>5. CASE d.thing \in Things /\ StartStoring(s, w)
      <3>1. wire' = [wire EXCEPT ![s] = Tail(@)] /\ halted' = halted
        BY <2>5 DEF StartStoring
      <3>2. ASSUME NEW r \in Listeners, NEW v \in Workers
            PROVE  \/ /\ job'[r][v].thing = job[r][v].thing
                      /\ job'[r][v].doc = job[r][v].doc
                   \/ r = s /\ v = w /\ job'[r][v].thing = d.thing /\ job'[r][v].doc = d.doc
        <4> DEFINE others == Others(s, w, d.thing)
                   j == [u \in Workers |->
                           IF u = w THEN [thing |-> d.thing, doc |-> d.doc, unstored |-> Fields,
                                          alone |-> others = {}]
                           ELSE IF u \in others THEN [job[s][u] EXCEPT !.alone = FALSE]
                           ELSE job[s][u]]
        <4>1. job' = [job EXCEPT ![s] = j]
          BY <2>5 DEF StartStoring
        <4>2. job'[r] = IF r = s THEN j ELSE job[r]
          BY <4>1 DEF TypeInv
        <4>3. ASSUME v \in others PROVE job[s][v] \in Jobs
          BY <2>5, <4>3, ShadowAssumption DEF Others, TypeInv, Idle
        <4> HIDE DEF others
        <4> QED
          BY <4>2, <4>3 DEF Jobs
      <3>4. WholeJobs'
        <4> SUFFICES ASSUME NEW r \in Listeners, NEW v \in Workers,
                            job'[r][v].thing \in provisioned
                     PROVE  Whole(job'[r][v].doc)
          BY <1>2 DEF WholeJobs, Whole
        <4>1. d = wire[s][1] /\ 1 \in 1..Len(wire[s])
          BY <2>1
        <4>2. d.thing \in provisioned => Whole(d.doc)
          BY <4>1 DEF FaultInv, WholeWires
        <4> QED
          BY <3>2, <4>2 DEF FaultInv, WholeJobs
      <3> QED
        BY <1>3, <2>3, <3>1, <3>4 DEF FaultInv
    <2> HIDE DEF d
    <2>6. d = Head(wire[s])
      BY DEF d
    <2> QED
      BY <1>4, <2>2, <2>5, <2>4, <2>6, StartCases
  <1>5. ASSUME NEW f \in Fields, CallbackStore(s, w, f)
        PROVE  FaultInv'
    <2> DEFINE j == job[s][w]
    <2>1. j \in Jobs
      BY <1>5 DEF CallbackStore, TypeInv
    <2>2. CASE j.doc[f] = Absent
      <3>1. Halt(s, j.thing, "field")
        BY <1>5, <2>2 DEF CallbackStore
      <3>2. j.thing \in Things \ provisioned
        BY <2>1, <2>2 DEF Jobs, FaultInv, WholeJobs, Whole
      <3> QED
        BY <1>2, <3>1, <3>2, HaltFaults
    <2>3. CASE j.doc[f] # Absent
      <3> DEFINE n == IF j.unstored \ {f} = {} THEN Idle
                      ELSE [j EXCEPT !.unstored = j.unstored \ {f}]
      <3>1. wire' = wire /\ halted' = halted
        BY <1>5, <2>3 DEF CallbackStore
      <3>2. job' = [job EXCEPT ![s][w] = n]
        BY <1>5, <2>3 DEF CallbackStore
      <3>3. n.thing = None \/ (n.thing = j.thing /\ n.doc = j.doc)
        BY <2>1 DEF Jobs, Idle
      <3> HIDE DEF n
      <3>4. WholeWires'
        BY <1>2, <3>1 DEF FaultInv, WholeWires, Whole
      <3>5. WholeJobs'
        <4> SUFFICES ASSUME NEW r \in Listeners, NEW v \in Workers,
                            job'[r][v].thing \in provisioned
                     PROVE  Whole(job'[r][v].doc)
          BY <1>2 DEF WholeJobs, Whole
        <4>1. job'[r][v] = IF r = s /\ v = w THEN n ELSE job[r][v]
          BY <3>2 DEF TypeInv
        <4>2. None \notin provisioned
          BY ShadowAssumption DEF TypeInv
        <4> QED
          BY <3>3, <4>1, <4>2 DEF FaultInv, WholeJobs
      <3>6. FaultsExplained'
        BY <1>2, <3>1 DEF FaultInv, FaultsExplained, Up
      <3> QED
        BY <1>3, <3>4, <3>5, <3>6 DEF FaultInv
    <2> QED
      BY <2>2, <2>3
  <1> QED
    BY <1>1, <1>4, <1>5

LEMMA FaultsKept == TypeInv /\ FaultInv /\ [Next]_vars => FaultInv'
  <1> SUFFICES ASSUME TypeInv, FaultInv, [Next]_vars PROVE FaultInv'
    OBVIOUS
  <1>1. CASE Silent
    BY <1>1 DEF Silent, Outside, Inside, FaultInv, WholeShadows, WholeWires, WholeJobs,
      FaultsExplained, Whole, Up
  <1>2. CASE Broadcasts
    <2>1. ASSUME NEW r \in Reporters, NEW m \in Docs, r \in Things,
                 Broadcast([thing |-> r, doc |-> Merged(r, m)])
          PROVE  FaultInv'
      <3>1. Merged(r, m) \in Docs /\ (r \in provisioned => Whole(Merged(r, m)))
        BY <2>1, MergedIsDoc DEF FaultInv, WholeShadows, Whole
      <3> DEFINE d == [thing |-> r, doc |-> Merged(r, m)]
      <3>2. d \in Messages /\ (d.thing \in provisioned => Whole(d.doc))
        BY <2>1, <3>1 DEF Messages
      <3> QED
        BY <2>1, <3>2, BroadcastFaults
    <2>2. ASSUME NEW t \in Things, Broadcast([thing |-> t, doc |-> shadow[t]])
          PROVE  FaultInv'
      <3> DEFINE d == [thing |-> t, doc |-> shadow[t]]
      <3>1. d \in Messages /\ (d.thing \in provisioned => Whole(d.doc))
        BY DEF Messages, TypeInv, FaultInv, WholeShadows
      <3> QED
        BY <2>2, <3>1, BroadcastFaults
    <2>3. ASSUME NEW t \in Foreign, Broadcast([thing |-> t, doc |-> Fresh])
          PROVE  FaultInv'
      <3> DEFINE d == [thing |-> t, doc |-> Fresh]
      <3>1. d \in Messages /\ d.thing \notin provisioned
        BY FreshIsDoc, ShadowAssumption DEF Messages, TypeInv
      <3> QED
        BY <2>3, <3>1, BroadcastFaults
    <2> QED
      BY <1>2, <2>1, <2>2, <2>3 DEF Broadcasts
  <1>3. CASE \E s \in Listeners : ModifySubscriptions(s)
    BY <1>3 DEF ModifySubscriptions, FaultInv, WholeShadows, WholeWires, WholeJobs,
      FaultsExplained, Whole, Up
  <1>4. CASE Callbacks
    BY <1>4, CallbackFaults
  <1> QED
    BY <1>1, <1>2, <1>3, <1>4, Steps

(***************************************************************************)
(* For any number of stations, fields, repetitions and workers, and any    *)
(* shadows to begin with: what takes a station down is lack of memory, a   *)
(* device that is none of the stations, or a thing whose shadow began      *)
(* without all its fields (MqttSubscriptionCallback checks neither the     *)
(* length of the topic nor the number in it, nor what pvPortMalloc,        *)
(* cJSON_Parse and cJSON_GetObjectItem return).                            *)
(***************************************************************************)
THEOREM FaultsAlwaysExplained == Spec => []FaultsExplained
  <1>1. FaultInv => FaultsExplained
    BY DEF FaultInv
  <1> QED
    BY <1>1, InitTypes, TypesKept, InitFaults, FaultsKept, PTL DEF Spec

-----------------------------------------------------------------------------
(* Tables and shadows                                                       *)

Deaf(s) == s \notin subscribed \/ ~Up(s)
Pending(s, t) == \E i \in 1..Len(wire[s]) : wire[s][i].thing = t
Busy(s, t) == \E w \in Workers : job[s][w].thing = t
LastIn(s, i) == \A k \in i + 1..Len(wire[s]) : wire[s][k].thing # wire[s][i].thing

\* Nothing is on its way to a station that does not listen, and one that does
\* stores nothing about itself.
DeafQuiet(s) ==
  Deaf(s) => wire[s] = <<>> /\ settled[s] = {} /\ \A w \in Workers : job[s][w] = Idle
NotOfItself(s) == ~Busy(s, s) /\ s \notin settled[s]

\* The last document about a thing on the wire is its shadow.
LastIsShadow(s) ==
  \A i \in 1..Len(wire[s]) :
    wire[s][i].thing \in Things /\ LastIn(s, i) => wire[s][i].doc = shadow[wire[s][i].thing]

(***************************************************************************)
(* A callback that runs alone has no other on its row, so that what it     *)
(* stored is still there; and if no newer document is on the wire, it      *)
(* stores the shadow.                                                      *)
(***************************************************************************)
Stores(s, w) ==
  LET t == job[s][w].thing
  IN  /\ \A v \in Workers \ {w} : job[s][v].thing # t
      /\ \A f \in Fields \ job[s][w].unstored : table[s][t][f] = job[s][w].doc[f]
      /\ ~Pending(s, t) => job[s][w].doc = shadow[t]
AloneStores(s) ==
  \A w \in Workers : job[s][w].thing \in Things /\ job[s][w].alone => Stores(s, w)

SettledAgree(s) ==
  \A t \in settled[s] : ~Pending(s, t) /\ ~Busy(s, t) => table[s][t] = shadow[t]

Agree(s) ==
  DeafQuiet(s) /\ NotOfItself(s) /\ LastIsShadow(s) /\ AloneStores(s) /\ SettledAgree(s)
AgreeInv == \A s \in Listeners : Agree(s)

LEMMA ListenersAreThings == \A s \in Listeners : s \in Things /\ s # None
  BY ShadowAssumption

LEMMA InitAgree == Init => AgreeInv
  <1> SUFFICES ASSUME Init, NEW s \in Listeners PROVE Agree(s)
    BY DEF AgreeInv
  <1>1. wire[s] = <<>> /\ settled[s] = {} /\ \A w \in Workers : job[s][w] = Idle
    BY DEF Init
  <1>2. \A w \in Workers : job[s][w].thing = None
    BY <1>1 DEF Idle
  <1>3. None \notin Things /\ s \in Things
    BY ShadowAssumption
  <1> QED
    BY <1>1, <1>2, <1>3 DEF Agree, DeafQuiet, NotOfItself, LastIsShadow, AloneStores,
      SettledAgree, Pending, Busy

\* A quiet listener that has settled nothing agrees, whatever the shadows are.
LEMMA NothingAgrees ==
  ASSUME NEW s \in Listeners, wire'[s] = <<>>, settled'[s] = {},
         \A w \in Workers : job'[s][w] = Idle
  PROVE  Agree(s)'
  <1>1. \A w \in Workers : job'[s][w].thing = None
    BY DEF Idle
  <1>2. None \notin Things /\ s \in Things
    BY ShadowAssumption
  <1> QED
    BY <1>1, <1>2 DEF Agree, DeafQuiet, NotOfItself, LastIsShadow, AloneStores,
      SettledAgree, Pending, Busy

\* A step that leaves a listener and the shadows alone.
LEMMA SameAgrees ==
  ASSUME NEW s \in Listeners, Agree(s), shadow' = shadow, Deaf(s)' => Deaf(s),
         wire'[s] = wire[s], job'[s] = job[s], table'[s] = table[s], settled'[s] = settled[s]
  PROVE  Agree(s)'
  <1>1. \A t : Pending(s, t)' = Pending(s, t) /\ Busy(s, t)' = Busy(s, t)
    BY DEF Pending, Busy
  <1>2. DeafQuiet(s)' /\ NotOfItself(s)' /\ SettledAgree(s)'
    BY <1>1 DEF Agree, DeafQuiet, NotOfItself, SettledAgree
  <1>3. LastIsShadow(s)'
    BY DEF Agree, LastIsShadow, LastIn
  <1>4. AloneStores(s)'
    BY <1>1 DEF Agree, AloneStores, Stores
  <1> QED
    BY <1>2, <1>3, <1>4 DEF Agree

LEMMA BroadcastAgrees ==
  ASSUME TypeInv, AgreeInv, NEW d \in Messages, Broadcast(d)
  PROVE  AgreeInv'
  <1> SUFFICES ASSUME NEW s \in Listeners PROVE Agree(s)'
    BY DEF AgreeInv
  <1>1. UNCHANGED <<subscribed, job, table, settled, halted>>
    BY DEF Broadcast, Inside
  <1>2. \A t \in Things : shadow'[t] = IF t = d.thing THEN d.doc ELSE shadow[t]
    BY DEF Broadcast
  <1>3. Agree(s)
    BY DEF AgreeInv
  <1>4. wire[s] \in Seq(Messages) /\ Len(wire[s]) \in Nat
    BY DEF TypeInv
  <1>5. settled[s] \subseteq Things /\ s \in Things
    BY ShadowAssumption DEF TypeInv
  <1>6. CASE s \in subscribed /\ Up(s)
    <2>1. wire'[s] = Append(wire[s], d)
      BY <1>6, SentEffect
    <2>2. /\ Len(wire'[s]) = Len(wire[s]) + 1 /\ wire'[s][Len(wire[s]) + 1] = d
          /\ \A i \in 1..Len(wire[s]) : wire'[s][i] = wire[s][i]
      BY <1>4, <2>1
    <2>3. ASSUME NEW t, ~Pending(s, t)'
          PROVE  ~Pending(s, t) /\ t # d.thing
      BY <1>4, <2>2, <2>3 DEF Pending
    <2>4. \A t : Busy(s, t)' = Busy(s, t)
      BY <1>1 DEF Busy
    <2>5. DeafQuiet(s)'
      BY <1>1, <1>6 DEF DeafQuiet, Deaf, Up
    <2>6. NotOfItself(s)'
      BY <1>1, <1>3, <2>4 DEF Agree, NotOfItself
    <2>7. LastIsShadow(s)'
      <3> SUFFICES ASSUME NEW i \in 1..Len(wire'[s]), wire'[s][i].thing \in Things, LastIn(s, i)'
                   PROVE  wire'[s][i].doc = shadow'[wire'[s][i].thing]
        BY DEF LastIsShadow
      <3>1. CASE i = Len(wire[s]) + 1
        BY <1>2, <2>2, <3>1
      <3>2. CASE i \in 1..Len(wire[s])
        <4>1. wire[s][i].thing # d.thing
          <5>1. Len(wire[s]) + 1 \in i + 1..Len(wire'[s])
            BY <1>4, <2>2, <3>2
          <5> QED
            BY <2>2, <3>2, <5>1 DEF LastIn
        <4>2. LastIn(s, i)
          <5> SUFFICES ASSUME NEW k \in i + 1..Len(wire[s])
                       PROVE  wire[s][k].thing # wire[s][i].thing
            BY DEF LastIn
          <5>1. k \in i + 1..Len(wire'[s]) /\ k \in 1..Len(wire[s])
            BY <1>4, <2>2, <3>2
          <5> QED
            BY <2>2, <3>2, <5>1 DEF LastIn
        <4> QED
          BY <1>2, <1>3, <2>2, <3>2, <4>1, <4>2 DEF Agree, LastIsShadow
      <3> QED
        BY <1>4, <2>2, <3>1, <3>2
    <2>8. AloneStores(s)'
      BY <1>1, <1>2, <1>3, <2>3 DEF Agree, AloneStores, Stores
    <2>9. SettledAgree(s)'
      BY <1>1, <1>2, <1>3, <1>5, <2>3, <2>4 DEF Agree, SettledAgree
    <2> QED
      BY <2>5, <2>6, <2>7, <2>8, <2>9 DEF Agree
  <1>7. CASE Deaf(s)
    <2>1. wire'[s] = wire[s]
      BY <1>7, SentEffect DEF Deaf
    <2> QED
      BY <1>1, <1>3, <1>7, <2>1, NothingAgrees DEF Agree, DeafQuiet
  <1> QED
    BY <1>6, <1>7 DEF Deaf

LEMMA HaltAgrees ==
  ASSUME TypeInv, AgreeInv, NEW s \in Listeners, NEW t, NEW why, Halt(s, t, why),
         UNCHANGED <<shadow, subscribed>>
  PROVE  AgreeInv'
  <1> SUFFICES ASSUME NEW r \in Listeners PROVE Agree(r)'
    BY DEF AgreeInv
  <1>1. CASE r = s
    BY <1>1, NothingAgrees DEF Halt, TypeInv
  <1>2. CASE r # s
    <2>1. Agree(r)
      BY DEF AgreeInv
    <2>2. /\ wire'[r] = wire[r] /\ job'[r] = job[r] /\ table'[r] = table[r]
          /\ settled'[r] = settled[r] /\ halted'[r] = halted[r]
      BY <1>2 DEF Halt, TypeInv
    <2> QED
      BY <2>1, <2>2, SameAgrees DEF Deaf, Up
  <1> QED
    BY <1>1, <1>2

\* The first document d is taken off the wire.
LEMMA TailAgrees ==
  ASSUME TypeInv, NEW s \in Listeners, wire[s] \in Seq(Messages), wire[s] # <<>>,
         NEW d, d = Head(wire[s]), wire' = [wire EXCEPT ![s] = Tail(@)],
         LastIsShadow(s), UNCHANGED shadow
  PROVE  /\ \A t : t # d.thing => (Pending(s, t)' <=> Pending(s, t))
         /\ ~Pending(s, d.thing)' => LastIn(s, 1)
         /\ d = wire[s][1] /\ 1 \in 1..Len(wire[s])
         /\ LastIsShadow(s)'
  <1>1. /\ wire'[s] = Tail(wire[s]) /\ Len(wire[s]) \in Nat \ {0} /\ d = wire[s][1]
        /\ Len(wire'[s]) = Len(wire[s]) - 1
        /\ \A i \in 1..Len(wire'[s]) : wire'[s][i] = wire[s][i + 1]
    BY DEF TypeInv
  <1>2. /\ \A t : t # d.thing => (Pending(s, t)' <=> Pending(s, t))
        /\ \A t : Pending(s, t)' => Pending(s, t)
        /\ Pending(s, d.thing)
        /\ ~Pending(s, d.thing)' => LastIn(s, 1)
    <2>1. \A i \in 2..Len(wire[s]) : i - 1 \in 1..Len(wire'[s]) /\ wire[s][i] = wire'[s][i - 1]
      BY <1>1
    <2>2. \A i \in 1..Len(wire'[s]) : i + 1 \in 1..Len(wire[s])
      BY <1>1
    <2>3. \A i \in 1..Len(wire[s]) : i = 1 \/ i \in 2..Len(wire[s])
      BY <1>1
    <2>4. 1 \in 1..Len(wire[s])
      BY <1>1
    <2>5. ASSUME NEW t, t # d.thing, Pending(s, t) PROVE Pending(s, t)'
      BY <1>1, <2>1, <2>3, <2>5 DEF Pending
    <2>6. \A t : Pending(s, t)' => Pending(s, t)
      BY <1>1, <2>2 DEF Pending
    <2>7. ASSUME ~Pending(s, d.thing)' PROVE LastIn(s, 1)
      <3>1. PICK u : u = d.thing
        OBVIOUS
      <3>2. \A i \in 1..Len(wire'[s]) : wire'[s][i].thing # u
        BY <2>7, <3>1, Zenon DEF Pending
      <3>3. ASSUME NEW k \in 2..Len(wire[s]) PROVE wire[s][k].thing # u
        <4>1. k - 1 \in 1..Len(wire'[s]) /\ wire[s][k] = wire'[s][k - 1]
          BY <2>1
        <4>2. wire'[s][k - 1].thing # u
          BY <3>2, <4>1, Zenon
        <4> QED
          BY <4>1, <4>2, Zenon
      <3>4. wire[s][1].thing = u /\ 1 + 1 = 2
        BY <1>1, <3>1
      <3> QED
        BY <3>3, <3>4 DEF LastIn
    <2> QED
      BY <1>1, <2>4, <2>5, <2>6, <2>7 DEF Pending
  <1>3. LastIsShadow(s)'
    <2> SUFFICES ASSUME NEW i \in 1..Len(wire'[s]), wire'[s][i].thing \in Things, LastIn(s, i)'
                 PROVE  wire'[s][i].doc = shadow'[wire'[s][i].thing]
      BY DEF LastIsShadow
    <2>1. i + 1 \in 1..Len(wire[s]) /\ wire[s][i + 1] = wire'[s][i]
      BY <1>1
    <2>2. LastIn(s, i + 1)
      <3> SUFFICES ASSUME NEW k \in i + 2..Len(wire[s])
                   PROVE  wire[s][k].thing # wire[s][i + 1].thing
        BY DEF LastIn
      <3>1. k - 1 \in i + 1..Len(wire'[s]) /\ k - 1 \in 1..Len(wire'[s]) /\ k - 1 + 1 = k
        BY <1>1
      <3> QED
        BY <1>1, <2>1, <3>1 DEF LastIn
    <2> QED
      BY <2>1, <2>2 DEF LastIsShadow
  <1> QED
    BY <1>1, <1>2, <1>3

\* It is dropped: then it is about no thing the station stores.
LEMMA DropAgrees ==
  ASSUME TypeInv, AgreeInv, NEW s \in Listeners, wire[s] \in Seq(Messages), wire[s] # <<>>,
         NEW d, d = Head(wire[s]), d.thing = s \/ d.thing \notin Things,
         Drop(s), Up(s), UNCHANGED <<shadow, subscribed>>
  PROVE  AgreeInv'
  <1>1. /\ wire' = [wire EXCEPT ![s] = Tail(@)]
        /\ UNCHANGED <<job, table, settled, halted>>
    BY DEF Drop
  <1>2. ASSUME NEW r \in Listeners, r # s PROVE Agree(r)'
    <2>1. Agree(r) /\ wire'[r] = wire[r]
      BY <1>1, <1>2 DEF TypeInv, AgreeInv
    <2> QED
      BY <1>1, <2>1, SameAgrees DEF Deaf, Up
  <1>3. Agree(s)
    BY DEF AgreeInv
  <1>4. LastIsShadow(s)' /\ \A t : t # d.thing => (Pending(s, t)' <=> Pending(s, t))
    BY <1>1, <1>3, TailAgrees DEF Agree
  <1>5. \A t : Busy(s, t)' <=> Busy(s, t)
    BY <1>1 DEF Busy
  <1>6. DeafQuiet(s)' /\ NotOfItself(s)'
    BY <1>1, <1>3, <1>5 DEF Agree, DeafQuiet, NotOfItself, Deaf, Up
  <1>7. AloneStores(s)'
    <2> SUFFICES ASSUME NEW w \in Workers, job[s][w].thing \in Things, job[s][w].alone
                 PROVE  Stores(s, w)'
      BY <1>1 DEF AloneStores
    <2>1. PICK t : t = job[s][w].thing
      OBVIOUS
    <2>2. Stores(s, w) /\ t # d.thing
      BY <1>3, <2>1 DEF Agree, AloneStores, NotOfItself, Busy
    <2>3. Pending(s, t)' <=> Pending(s, t)
      BY <1>4, <2>2
    <2> QED
      BY <1>1, <2>1, <2>2, <2>3 DEF Stores
  <1>8. SettledAgree(s)'
    <2> SUFFICES ASSUME NEW t \in settled[s], ~Pending(s, t)', ~Busy(s, t)
                 PROVE  table[s][t] = shadow[t]
      BY <1>1, <1>5 DEF SettledAgree
    <2>1. t # d.thing
      BY <1>3, ShadowAssumption DEF Agree, NotOfItself, TypeInv
    <2>2. ~Pending(s, t)
      BY <1>4, <2>1
    <2> QED
      BY <1>3, <2>2 DEF Agree, SettledAgree
  <1> QED
    BY <1>2, <1>4, <1>6, <1>7, <1>8 DEF Agree, AgreeInv

\* The first document is taken off the wire and becomes the job of a worker.
LEMMA StartAgrees ==
  ASSUME TypeInv, AgreeInv, NEW s \in Listeners, NEW w \in Workers, CallbackStart(s, w)
  PROVE  AgreeInv'
  <1>0. PICK d : d = Head(wire[s])
    OBVIOUS
  <1> DEFINE others == Others(s, w, d.thing)
             j == [u \in Workers |->
                     IF u = w THEN [thing |-> d.thing, doc |-> d.doc, unstored |-> Fields,
                                    alone |-> others = {}]
                     ELSE IF u \in others THEN [job[s][u] EXCEPT !.alone = FALSE]
                     ELSE job[s][u]]
  <1>1. d \in Messages /\ wire[s] \in Seq(Messages) /\ wire[s] # <<>>
    BY <1>0, StartTypes
  <1>2. UNCHANGED <<shadow, subscribed>> /\ Up(s) /\ job[s][w] = Idle
    BY DEF CallbackStart
  <1>3. CASE \E why \in Whys : Halt(s, d.thing, why)
    BY <1>2, <1>3, HaltAgrees
  <1>4. CASE d.thing \in Things \ {s} /\ StartStoring(s, w)
    <2>1. /\ job' = [job EXCEPT ![s] = j] /\ wire' = [wire EXCEPT ![s] = Tail(@)]
          /\ UNCHANGED <<table, settled, halted>>
      BY <1>0, <1>4 DEF StartStoring
    <2>2. ASSUME NEW r \in Listeners, r # s PROVE Agree(r)'
      <3>1. Agree(r) /\ wire'[r] = wire[r] /\ job'[r] = job[r]
        BY <2>1, <2>2 DEF TypeInv, AgreeInv
      <3> QED
        BY <1>2, <2>1, <3>1, SameAgrees DEF Deaf, Up
    <2>3. Agree(s)
      BY DEF AgreeInv
    <2>4. /\ \A t : t # d.thing => (Pending(s, t)' <=> Pending(s, t))
          /\ ~Pending(s, d.thing)' => LastIn(s, 1)
          /\ d = wire[s][1] /\ 1 \in 1..Len(wire[s])
          /\ LastIsShadow(s)'
      BY <1>0, <1>1, <1>2, <2>1, <2>3, TailAgrees DEF Agree
    <2>5. job'[s] = j
      BY <2>1 DEF TypeInv
    <2>6. /\ j[w].thing = d.thing /\ j[w].doc = d.doc /\ j[w].unstored = Fields
          /\ j[w].alone = (others = {})
      OBVIOUS
    <2>7. ASSUME NEW v \in Workers \ {w}
          PROVE  /\ j[v].thing = job[s][v].thing /\ j[v].doc = job[s][v].doc
                 /\ j[v].unstored = job[s][v].unstored
                 /\ v \in others => ~j[v].alone
                 /\ v \notin others => j[v] = job[s][v]
      <3>1. v \in others => job[s][v] \in Jobs
        BY <1>4, ShadowAssumption DEF Others, TypeInv, Idle
      <3> HIDE DEF others
      <3> QED
        BY <3>1 DEF Jobs
    <2>8. \A v \in Workers \ {w} : v \in others <=> job[s][v].thing = d.thing
      BY DEF Others
    <2> HIDE DEF j, others
    <2>9. DeafQuiet(s)'
      BY <1>1, <1>2, <2>1, <2>3 DEF Agree, DeafQuiet, Deaf, Up
    <2>10. NotOfItself(s)'
      <3>1. d.thing # s
        BY <1>4
      <3>2. ~Busy(s, s)'
        BY <2>3, <2>5, <2>6, <2>7, <3>1 DEF Agree, NotOfItself, Busy
      <3> QED
        BY <2>1, <2>3, <3>2 DEF Agree, NotOfItself
    <2>11. AloneStores(s)'
      <3> SUFFICES ASSUME NEW v \in Workers, j[v].thing \in Things, j[v].alone
                   PROVE  Stores(s, v)'
        BY <2>5 DEF AloneStores
      <3>1. CASE v = w
        <4>1. \A u \in Workers \ {w} : j[u].thing # d.thing
          BY <2>6, <2>7, <2>8, <3>1
        <4>2. ~Pending(s, d.thing)' => d.doc = shadow[d.thing]
          BY <1>4, <2>3, <2>4 DEF Agree, LastIsShadow
        <4> QED
          BY <1>2, <2>5, <2>6, <3>1, <4>1, <4>2 DEF Stores
      <3>2. CASE v # w
        <4>1. v \notin others /\ j[v] = job[s][v] /\ job[s][v].thing # d.thing
          BY <2>7, <2>8, <3>2
        <4>2. Stores(s, v)
          BY <2>3, <4>1 DEF Agree, AloneStores
        <4>3. ASSUME NEW u \in Workers \ {v} PROVE j[u].thing # j[v].thing
          <5>1. CASE u = w
            BY <2>6, <4>1, <5>1
          <5>2. CASE u # w
            <6>1. j[u].thing = job[s][u].thing
              BY <2>7, <5>2
            <6> QED
              BY <4>1, <4>2, <6>1 DEF Stores
          <5> QED
            BY <5>1, <5>2
        <4>4. PICK t : t = job[s][v].thing
          OBVIOUS
        <4>5. Pending(s, t)' <=> Pending(s, t)
          BY <2>4, <4>1, <4>4
        <4>6. job'[s][v].thing = t /\ job'[s] = j /\ job'[s][v] = job[s][v]
          BY <2>5, <4>1, <4>4
        <4>7. ~Pending(s, t)' => job[s][v].doc = shadow'[t]
          BY <1>2, <4>2, <4>4, <4>5 DEF Stores
        <4>8. \A f \in Fields \ job[s][v].unstored : table'[s][t][f] = job[s][v].doc[f]
          BY <2>1, <4>2, <4>4 DEF Stores
        <4> QED
          BY <4>3, <4>6, <4>7, <4>8 DEF Stores
      <3> QED
        BY <3>1, <3>2
    <2>12. SettledAgree(s)'
      <3> SUFFICES ASSUME NEW t \in settled'[s], ~Pending(s, t)', ~Busy(s, t)'
                   PROVE  table'[s][t] = shadow'[t]
        BY DEF SettledAgree
      <3>1. t # d.thing
        BY <2>5, <2>6 DEF Busy
      <3>2. ~Busy(s, t)
        <4>1. job[s][w].thing = None
          BY <1>2 DEF Idle
        <4>2. t # None
          BY <2>1, ShadowAssumption DEF TypeInv
        <4> QED
          BY <2>5, <2>7, <4>1, <4>2 DEF Busy
      <3> QED
        BY <1>2, <2>1, <2>3, <2>4, <3>1, <3>2 DEF Agree, SettledAgree
    <2> QED
      BY <2>2, <2>4, <2>9, <2>10, <2>11, <2>12 DEF Agree, AgreeInv
  <1>5. CASE (d.thing = s \/ d.thing \notin Things) /\ Drop(s)
    BY <1>0, <1>1, <1>2, <1>5, DropAgrees
  <1> HIDE DEF j, others
  <1> QED
    BY <1>0, <1>3, <1>4, <1>5, StartCases

\* One field of a job is stored; with the last one the job ends.
LEMMA StoreAgrees ==
  ASSUME TypeInv, AgreeInv, NEW s \in Listeners, NEW w \in Workers, NEW f \in Fields,
         CallbackStore(s, w, f)
  PROVE  AgreeInv'
  <1>1. PICK j, t : j = job[s][w] /\ t = j.thing
    OBVIOUS
  <1>2. UNCHANGED <<shadow, subscribed>> /\ Up(s) /\ j # Idle /\ f \in j.unstored
    BY <1>1 DEF CallbackStore, MayStore
  <1>3. j \in Jobs /\ t \in Things
    BY <1>1, <1>2 DEF TypeInv, Jobs
  <1>4. CASE j.doc[f] = Absent
    <2>1. Halt(s, t, "field")
      BY <1>1, <1>4 DEF CallbackStore
    <2> QED
      BY <1>2, <2>1, HaltAgrees
  <1>5. CASE j.doc[f] # Absent
    <2> DEFINE rest == j.unstored \ {f}
               n == IF rest = {} THEN Idle ELSE [j EXCEPT !.unstored = rest]
               S == IF rest # {} THEN settled[s]
                    ELSE IF j.alone THEN settled[s] \cup {t} ELSE settled[s] \ {t}
    <2>1. /\ job' = [job EXCEPT ![s][w] = n] /\ table' = [table EXCEPT ![s][t][f] = j.doc[f]]
          /\ settled' = [settled EXCEPT ![s] = S] /\ wire' = wire /\ halted' = halted
      BY <1>1, <1>5 DEF CallbackStore
    <2>2. /\ job'[s][w] = n /\ settled'[s] = S
          /\ \A v \in Workers \ {w} : job'[s][v] = job[s][v]
      BY <2>1 DEF TypeInv
    <2>3. n = Idle \/ (/\ n.thing = t /\ n.doc = j.doc /\ n.unstored = rest /\ n.alone = j.alone)
      BY <1>1, <1>3 DEF Jobs
    <2>4. /\ table'[s][t][f] = j.doc[f]
          /\ \A g \in Fields \ {f} : table'[s][t][g] = table[s][t][g]
          /\ \A u \in Things \ {t} : table'[s][u] = table[s][u]
      BY <1>3, <2>1 DEF TypeInv
    <2>5. S \subseteq settled[s] \cup {t} /\ (n # Idle => S = settled[s])
      OBVIOUS
    <2>6. n = Idle => rest = {} /\ (t \in S => j.alone)
      BY <1>1, <1>3, <2>3 DEF Jobs, Idle
    <2> HIDE DEF n, S
    <2>7. n.thing = t \/ n.thing = None
      BY <2>3 DEF Idle
    <2>8. \A u : Pending(s, u)' <=> Pending(s, u)
      BY <2>1 DEF Pending
    <2>9. Agree(s)
      BY DEF AgreeInv
    <2>10. DeafQuiet(s)'
      BY <1>1, <1>2, <2>1, <2>9 DEF Agree, DeafQuiet, Deaf, Up
    <2>11. NotOfItself(s)'
      <3>1. t # s
        BY <1>1, <2>9 DEF Agree, NotOfItself, Busy
      <3>2. ~Busy(s, s)'
        BY <2>2, <2>7, <2>9, <3>1, ListenersAreThings DEF Agree, NotOfItself, Busy
      <3> QED
        BY <2>2, <2>5, <2>8, <2>9, <3>1, <3>2 DEF Agree, NotOfItself
    <2>12. LastIsShadow(s)'
      BY <1>2, <2>1, <2>9 DEF Agree, LastIsShadow, LastIn
    <2>13. AloneStores(s)'
      <3> SUFFICES ASSUME NEW v \in Workers, job'[s][v].thing \in Things, job'[s][v].alone
                   PROVE  Stores(s, v)'
        BY DEF AloneStores
      <3>1. CASE v = w
        <4>1. n.thing = t /\ n # Idle
          BY <2>2, <2>7, <3>1, ShadowAssumption DEF Idle
        <4>2. n.doc = j.doc /\ n.unstored = rest /\ j.alone
          BY <2>2, <2>3, <3>1, <4>1
        <4>3. Stores(s, w)
          BY <1>1, <1>3, <2>9, <4>2 DEF Agree, AloneStores
        <4>4. /\ \A u \in Workers \ {w} : job[s][u].thing # t
              /\ \A g \in Fields \ j.unstored : table[s][t][g] = j.doc[g]
              /\ ~Pending(s, t) => j.doc = shadow[t]
          BY <1>1, <4>3 DEF Stores
        <4>5. \A g \in Fields \ rest : table'[s][t][g] = j.doc[g]
          BY <2>4, <4>4
        <4>6. ~Pending(s, t)' => j.doc = shadow'[t]
          BY <1>2, <2>8, <4>4
        <4> QED
          BY <2>2, <3>1, <4>1, <4>2, <4>4, <4>5, <4>6 DEF Stores
      <3>2. CASE v # w
        <4>1. job'[s][v] = job[s][v]
          BY <2>2, <3>2
        <4>2. PICK u : u = job[s][v].thing
          OBVIOUS
        <4>3. Stores(s, v)
          BY <2>9, <4>1 DEF Agree, AloneStores
        <4>4. u # t /\ u \in Things
          BY <1>1, <3>2, <4>1, <4>2, <4>3 DEF Stores
        <4>5. \A x \in Workers \ {v} : job'[s][x].thing # u
          <5>1. n.thing # u
            BY <2>7, <4>4, ShadowAssumption
          <5> QED
            BY <2>2, <4>2, <4>3, <5>1 DEF Stores
        <4>6. \A g \in Fields \ job[s][v].unstored : table'[s][u][g] = job[s][v].doc[g]
          BY <2>4, <4>2, <4>3, <4>4 DEF Stores
        <4>7. ~Pending(s, u)' => job[s][v].doc = shadow'[u]
          BY <1>2, <2>8, <4>2, <4>3 DEF Stores
        <4> QED
          BY <4>1, <4>2, <4>5, <4>6, <4>7 DEF Stores
      <3> QED
        BY <3>1, <3>2
    <2>14. SettledAgree(s)'
      <3> SUFFICES ASSUME NEW x \in S, ~Pending(s, x)', ~Busy(s, x)'
                   PROVE  table'[s][x] = shadow'[x]
        BY <2>2 DEF SettledAgree
      <3>1. CASE x = t
        <4>1. n = Idle
          BY <2>2, <2>3, <3>1 DEF Busy
        <4>2. j.alone /\ rest = {}
          BY <2>6, <3>1, <4>1
        <4>3. Stores(s, w)
          BY <1>1, <1>3, <2>9, <4>2 DEF Agree, AloneStores
        <4>4. j.doc = shadow[t] /\ \A g \in Fields \ j.unstored : table[s][t][g] = j.doc[g]
          BY <1>1, <2>8, <3>1, <4>3 DEF Stores
        <4>5. \A g \in Fields : table'[s][t][g] = j.doc[g]
          BY <2>4, <4>2, <4>4
        <4>6. table'[s][t] \in [Fields -> Values]
          BY <1>3, CallbackTypes DEF Callbacks, TypeInv
        <4>7. j.doc \in Docs
          BY <1>3 DEF Jobs
        <4> QED
          BY <1>2, <3>1, <4>4, <4>5, <4>6, <4>7 DEF Docs
      <3>2. CASE x # t
        <4>1. x \in settled[s] /\ x \in Things
          BY <2>5, <3>2 DEF TypeInv
        <4>2. ~Busy(s, x)
          BY <1>1, <2>2, <3>2 DEF Busy
        <4> QED
          BY <1>2, <2>4, <2>8, <2>9, <3>2, <4>1, <4>2 DEF Agree, SettledAgree
      <3> QED
        BY <3>1, <3>2
    <2>15. ASSUME NEW r \in Listeners, r # s PROVE Agree(r)'
      <3>1. /\ Agree(r) /\ wire'[r] = wire[r] /\ job'[r] = job[r] /\ table'[r] = table[r]
            /\ settled'[r] = settled[r]
        BY <2>1, <2>15 DEF TypeInv, AgreeInv
      <3> QED
        BY <1>2, <2>1, <3>1, SameAgrees DEF Deaf, Up
    <2> QED
      BY <2>10, <2>11, <2>12, <2>13, <2>14, <2>15 DEF Agree, AgreeInv
  <1> QED
    BY <1>4, <1>5

LEMMA AgreeKept == TypeInv /\ AgreeInv /\ [Next]_vars => AgreeInv'
  <1> SUFFICES ASSUME TypeInv, AgreeInv, [Next]_vars PROVE AgreeInv'
    OBVIOUS
  <1>1. CASE Silent
    <2> SUFFICES ASSUME NEW s \in Listeners PROVE Agree(s)'
      BY DEF AgreeInv
    <2>1. Agree(s)
      BY DEF AgreeInv
    <2> QED
      BY <1>1, <2>1, SameAgrees DEF Silent, Outside, Inside, Deaf, Up
  <1>2. CASE Broadcasts
    <2>1. ASSUME NEW r \in Reporters, NEW m \in Docs, r \in Things,
                 Broadcast([thing |-> r, doc |-> Merged(r, m)])
          PROVE  AgreeInv'
      <3>1. [thing |-> r, doc |-> Merged(r, m)] \in Messages
        BY <2>1, MergedIsDoc DEF Messages
      <3> QED
        BY <2>1, <3>1, BroadcastAgrees
    <2>2. ASSUME NEW t \in Things, Broadcast([thing |-> t, doc |-> shadow[t]])
          PROVE  AgreeInv'
      <3>1. [thing |-> t, doc |-> shadow[t]] \in Messages
        BY DEF Messages, TypeInv
      <3> QED
        BY <2>2, <3>1, BroadcastAgrees
    <2>3. ASSUME NEW t \in Foreign, Broadcast([thing |-> t, doc |-> Fresh])
          PROVE  AgreeInv'
      <3>1. [thing |-> t, doc |-> Fresh] \in Messages
        BY FreshIsDoc DEF Messages
      <3> QED
        BY <2>3, <3>1, BroadcastAgrees
    <2> QED
      BY <1>2, <2>1, <2>2, <2>3 DEF Broadcasts
  <1>3. CASE \E s \in Listeners : ModifySubscriptions(s)
    <2> SUFFICES ASSUME NEW r \in Listeners PROVE Agree(r)'
      BY DEF AgreeInv
    <2>1. /\ Agree(r) /\ shadow' = shadow /\ wire' = wire /\ job' = job /\ table' = table
          /\ settled' = settled /\ (Deaf(r)' => Deaf(r))
      BY <1>3 DEF AgreeInv, ModifySubscriptions, Deaf, Up
    <2> QED
      BY <2>1, SameAgrees
  <1>4. CASE Callbacks
    BY <1>4, StartAgrees, StoreAgrees DEF Callbacks
  <1> QED
    BY <1>1, <1>2, <1>3, <1>4, Steps

(***************************************************************************)
(* Between callbacks a row is what the broker knows of its thing, in every *)
(* field, unless callbacks about it overlapped: for any number of stations *)
(* and workers, and however often and in whatever order PublishMessage's   *)
(* messages are transmitted again.                                         *)
(***************************************************************************)
THEOREM TablesAgree == Spec => []QuietTablesAgree
  <1>1. TypeInv /\ AgreeInv => QuietTablesAgree
    <2> SUFFICES ASSUME TypeInv, AgreeInv, NEW s \in Listeners, Quiet(s), NEW t \in settled[s]
                 PROVE  table[s][t] = shadow[t]
      BY DEF QuietTablesAgree
    <2>1. ~Pending(s, t)
      BY DEF Quiet, Pending
    <2>2. ~Busy(s, t)
      BY ShadowAssumption DEF Quiet, Busy, Idle, TypeInv
    <2> QED
      BY <2>1, <2>2 DEF AgreeInv, Agree, SettledAgree
  <1> QED
    BY <1>1, InitTypes, TypesKept, InitAgree, AgreeKept, PTL DEF Spec
=============================================================================
