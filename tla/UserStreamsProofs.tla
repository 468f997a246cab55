--------------------------- MODULE UserStreamsProofs ---------------------------
(***************************************************************************)
(* Proofs about UserStreams, for any set of profiles, any hash and any     *)
(* number of overlapping watchdog passes: the types, the link between the  *)
(* pool's map and the server's sockets, and that no pass, event or         *)
(* teardown drops a live socket from the map.                              *)
(***************************************************************************)
EXTENDS UserStreams, TLAPS

\* Most leaves are first-order; the ones with arithmetic or records name SMT.
USE Zenon

\* The pool's map and the server's sockets: an entry stands for an open socket,
\* and a profile without a phase has no entry.
Sockets ==
  /\ conns \in [Profiles -> [phase : {"none", "connecting", "subscribed"},
                             quiet : {"no", "idle", "silent"}]]
  /\ open \in [Profiles -> Nat] /\ closing \subseteq Profiles
  /\ \A p \in Profiles : conns[p] # NoConn => open[p] > 0
  /\ \A p \in Profiles : conns[p].phase = "none" => conns[p] = NoConn

OwnType ==
  own \in [pc : {"idle", "members", "loop", "creds", "opened", "resync"},
           p : Profiles, todo : SUBSET Profiles, seen : SUBSET Profiles,
           owned : SUBSET Profiles]
Pass == [pc : {"idle", "loop", "creds", "opened", "resync", "silence"},
         p : Profiles, todo : SUBSET Profiles, silent : BOOLEAN]
WatchType == watch \in [1..MaxPasses -> Pass]
HaltType == halt \in [pc : {"up", "stopping", "closing", "down"}, todo : SUBSET Profiles]
Sets ==
  /\ active \subseteq Profiles /\ ready \subseteq Members
  /\ streamedByUs \subseteq Profiles /\ intended \subseteq Profiles
  /\ missed \subseteq active
Bounds == changes \in 0..MaxChanges /\ faults \in 0..MaxFaults

IInv == Sockets /\ OwnType /\ WatchType /\ HaltType /\ Sets /\ Bounds

\* The invariant says that every variable has its type.
LEMMA IInvTypes == IInv => TypeOK
BY DEF IInv, TypeOK, Sockets, OwnType, WatchType, Pass, HaltType, Sets, Bounds

\* An entry that leaves the map takes one open socket with it.
Dropped ==
  \A p \in Profiles : conns[p] # NoConn /\ conns'[p] = NoConn => open'[p] = open[p] - 1

(***************************************************************************)
(* The socket operations.                                                  *)
(***************************************************************************)

\* A step that touches no socket keeps the sockets and drops none.
LEMMA SocketsSame ==
  ASSUME Sockets, UNCHANGED sockets PROVE Sockets' /\ Dropped
BY DEF Sockets, Dropped, sockets

\* A new socket becomes the profile's connection.
LEMMA RegisterKeeps ==
  ASSUME Sockets, NEW p \in Profiles, Register(p) PROVE Sockets' /\ Dropped
<1> DEFINE c == [phase |-> "connecting", quiet |-> "no"]
<1>1. conns' = [conns EXCEPT ![p] = c] /\ open' = [open EXCEPT ![p] = @ + 1] /\ closing' = closing
  BY DEF Register
<1>2. c \in [phase : {"none", "connecting", "subscribed"}, quiet : {"no", "idle", "silent"}]
  OBVIOUS
<1>3. c # NoConn /\ c.phase # "none"
  BY DEF NoConn
<1> HIDE DEF c
<1>4. open[p] \in Nat /\ open' \in [Profiles -> Nat] /\ open'[p] > 0
  BY SMT, <1>1 DEF Sockets
<1>5. \A q \in Profiles : q # p => conns'[q] = conns[q] /\ open'[q] = open[q]
  BY <1>1 DEF Sockets
<1>6. conns'[p] = c
  BY <1>1 DEF Sockets
<1>7. conns' \in [Profiles -> [phase : {"none", "connecting", "subscribed"},
                               quiet : {"no", "idle", "silent"}]]
  BY <1>1, <1>2 DEF Sockets
<1>8. Sockets'
  BY <1>1, <1>3, <1>4, <1>5, <1>6, <1>7 DEF Sockets
<1>9. Dropped
  BY <1>3, <1>5, <1>6 DEF Dropped
<1> QED
  BY <1>8, <1>9

\* An entry removed together with its socket: the teardown and onClose.
LEMMA RemoveKeeps ==
  ASSUME Sockets, NEW p \in Profiles, conns[p] # NoConn,
         conns' = [conns EXCEPT ![p] = NoConn], open' = [open EXCEPT ![p] = @ - 1],
         closing' \subseteq Profiles
  PROVE  Sockets' /\ Dropped
<1>1. open[p] \in Nat /\ open[p] > 0
  BY DEF Sockets
<1>2. open[p] - 1 \in Nat
  BY SMT, <1>1
<1>3. open' \in [Profiles -> Nat] /\ open'[p] = open[p] - 1
  BY <1>2 DEF Sockets
<1>4. \A q \in Profiles : q # p => conns'[q] = conns[q] /\ open'[q] = open[q]
  BY DEF Sockets
<1>5. conns'[p] = NoConn
  BY DEF Sockets
<1>6. NoConn \in [phase : {"none", "connecting", "subscribed"}, quiet : {"no", "idle", "silent"}]
  BY DEF NoConn
<1>7. conns' \in [Profiles -> [phase : {"none", "connecting", "subscribed"},
                               quiet : {"no", "idle", "silent"}]]
  BY <1>6 DEF Sockets
<1>8. Sockets'
  BY <1>3, <1>4, <1>5, <1>7 DEF Sockets
<1>9. Dropped
  BY <1>3, <1>4 DEF Dropped
<1> QED
  BY <1>8, <1>9

\* A teardown takes the entry and its socket, and no other.
LEMMA TeardownKeeps ==
  ASSUME Sockets, NEW p \in Profiles, Teardown(p) PROVE Sockets' /\ Dropped
<1>1. CASE conns[p] = NoConn
  BY <1>1, SocketsSame DEF Teardown
<1>2. CASE conns[p] # NoConn
  <2>1. closing' \subseteq Profiles
    BY <1>2 DEF Teardown, Sockets
  <2> QED
    BY <1>2, <2>1, RemoveKeeps DEF Teardown
<1> QED
  BY <1>1, <1>2

\* A socket event that rewrites the entry of a connection and leaves it one.
LEMMA RewriteKeeps ==
  ASSUME Sockets, NEW p \in Profiles, conns[p] # NoConn,
         NEW c \in [phase : {"connecting", "subscribed"}, quiet : {"no", "idle", "silent"}],
         conns' = [conns EXCEPT ![p] = c], UNCHANGED <<open, closing>>
  PROVE  Sockets' /\ Dropped
<1>1. c # NoConn /\ c.phase # "none"
  BY SMT DEF NoConn
<1>2. c \in [phase : {"none", "connecting", "subscribed"}, quiet : {"no", "idle", "silent"}]
  OBVIOUS
<1>3. conns'[p] = c /\ \A q \in Profiles : q # p => conns'[q] = conns[q]
  BY DEF Sockets
<1>4. conns' \in [Profiles -> [phase : {"none", "connecting", "subscribed"},
                               quiet : {"no", "idle", "silent"}]]
  BY <1>2 DEF Sockets
<1>5. Sockets'
  BY <1>1, <1>3, <1>4 DEF Sockets
<1>6. Dropped
  BY <1>1, <1>3 DEF Dropped
<1> QED
  BY <1>5, <1>6

(***************************************************************************)
(* The asynchronous functions.                                             *)
(***************************************************************************)

\* The records of a pass that is not running.
LEMMA NobodyTypes == NoPass \in Pass /\ NoOwn \in [pc : {"idle"}, p : Profiles,
  todo : SUBSET Profiles, seen : SUBSET Profiles, owned : SUBSET Profiles]
<1>1. (CHOOSE p \in Profiles : TRUE) \in Profiles
  BY StreamsAssumption DEF StreamsAssumption
<1> QED
  BY <1>1 DEF NoPass, NoOwn, Pass

\* The counters stay within their bounds.
LEMMA BoundsKept ==
  ASSUME Bounds,
         (Fault /\ UNCHANGED changes) \/ (Change /\ UNCHANGED faults) \/ UNCHANGED bounds
  PROVE  Bounds'
BY SMT, StreamsAssumption DEF Bounds, bounds, Fault, Change

\* close, which also withdraws the intent to stream.
LEMMA CloseKeeps ==
  ASSUME Sockets, intended \subseteq Profiles, NEW p \in Profiles, Close(p)
  PROVE  Sockets' /\ Dropped /\ intended' \subseteq Profiles
BY TeardownKeeps DEF Close

\* The ownership pass visits one profile.
LEMMA OwnVisitKeeps ==
  ASSUME Sockets, streamedByUs \subseteq Profiles, intended \subseteq Profiles,
         NEW o \in [pc : {"idle", "members", "loop", "creds", "opened", "resync"},
                    p : Profiles, todo : SUBSET Profiles, seen : SUBSET Profiles,
                    owned : SUBSET Profiles],
         OwnVisit(o)
  PROVE  /\ Sockets' /\ Dropped /\ OwnType'
         /\ streamedByUs' \subseteq Profiles /\ intended' \subseteq Profiles
<1>1. o.todo \subseteq Profiles /\ Connected(o) \subseteq Profiles
  BY DEF Connected
<1>2. ASSUME NEW p \in o.todo \ Connected(o), NEW skip \in SUBSET Connected(o),
             NEW rest, rest = [o EXCEPT !.pc = "loop", !.todo = @ \ (skip \cup {p})],
             \/ /\ p \in o.owned
                /\ own' = [rest EXCEPT !.pc = "creds", !.p = p]
                /\ streamedByUs' = streamedByUs \cup skip \cup {p}
                /\ intended' = intended \cup {p}
                /\ UNCHANGED sockets
             \/ /\ p \notin o.owned
                /\ own' = rest
                /\ streamedByUs' = (streamedByUs \cup skip) \ {p}
                /\ Close(p)
      PROVE  /\ Sockets' /\ Dropped /\ OwnType'
             /\ streamedByUs' \subseteq Profiles /\ intended' \subseteq Profiles
  <2>1. p \in Profiles /\ skip \subseteq Profiles
    BY <1>1
  <2>2. rest \in [pc : {"loop"}, p : Profiles, todo : SUBSET Profiles, seen : SUBSET Profiles,
                  owned : SUBSET Profiles]
    BY <1>2
  <2>3. rest.p \in Profiles /\ rest.todo \in SUBSET Profiles /\ [rest EXCEPT !.pc = "creds", !.p = p]
          \in [pc : {"creds"}, p : Profiles, todo : SUBSET Profiles, seen : SUBSET Profiles,
               owned : SUBSET Profiles]
    BY <2>1, <2>2
  <2>4. OwnType'
    BY <1>2, <2>2, <2>3 DEF OwnType
  <2>5. Sockets' /\ Dropped /\ intended' \subseteq Profiles
    BY <1>2, <2>1, SocketsSame, CloseKeeps
  <2>6. streamedByUs' \subseteq Profiles
    BY <1>2, <2>1
  <2> QED
    BY <2>4, <2>5, <2>6
<1>3. ASSUME NEW mine, mine = streamedByUs \cup o.todo,
             \/ \E p \in mine \ o.seen :
                  /\ own' = [o EXCEPT !.pc = "loop", !.todo = {}]
                  /\ streamedByUs' = mine \ {p}
                  /\ Close(p)
             \/ /\ mine \subseteq o.seen
                /\ own' = NoOwn
                /\ streamedByUs' = mine
                /\ UNCHANGED pool
      PROVE  /\ Sockets' /\ Dropped /\ OwnType'
             /\ streamedByUs' \subseteq Profiles /\ intended' \subseteq Profiles
  <2>1. mine \subseteq Profiles
    BY <1>1, <1>3
  <2>2. [o EXCEPT !.pc = "loop", !.todo = {}]
          \in [pc : {"loop"}, p : Profiles, todo : SUBSET Profiles, seen : SUBSET Profiles,
               owned : SUBSET Profiles]
    OBVIOUS
  <2>3. OwnType'
    BY <1>3, <2>2, NobodyTypes DEF OwnType
  <2>4. Sockets' /\ Dropped /\ intended' \subseteq Profiles
    BY <1>3, <2>1, SocketsSame, CloseKeeps DEF pool
  <2> QED
    BY <1>3, <2>1, <2>3, <2>4
<1> QED
  BY <1>2, <1>3 DEF OwnVisit

\* Every action of the ownership pass.
LEMMA OwnKeeps ==
  ASSUME IInv, OwnStart \/ OwnStep PROVE IInv' /\ Dropped
<1> USE DEF IInv
<1>1. own.p \in Profiles
  BY DEF OwnType
<1>2. \A pc \in {"idle", "members", "loop", "creds", "opened", "resync"} :
        [own EXCEPT !.pc = pc] \in [pc : {"idle", "members", "loop", "creds", "opened", "resync"},
          p : Profiles, todo : SUBSET Profiles, seen : SUBSET Profiles, owned : SUBSET Profiles]
  BY DEF OwnType
<1> DEFINE Frame == UNCHANGED <<env, watch, halt>>
<1>3. ASSUME Sockets', Dropped, OwnType', Frame, Bounds', streamedByUs' \subseteq Profiles,
             intended' \subseteq Profiles, missed' \subseteq active
      PROVE  IInv' /\ Dropped
  BY <1>3 DEF env, WatchType, HaltType, Sets
<1>4. CASE OwnStart
  <2>1. OwnType'
    BY <1>2, <1>4 DEF OwnStart, OwnType
  <2> QED
    BY <1>3, <1>4, <2>1, SocketsSame DEF OwnStart, Sets, Bounds, pool, bounds
<1>5. CASE OwnMembers
  <2> DEFINE o == [own EXCEPT !.todo = active, !.seen = active, !.owned = Owned]
  <2>1. o \in [pc : {"idle", "members", "loop", "creds", "opened", "resync"},
               p : Profiles, todo : SUBSET Profiles, seen : SUBSET Profiles,
               owned : SUBSET Profiles]
    BY DEF OwnType, Sets, Owned
  <2>2. OwnVisit(o) /\ UNCHANGED <<env, watch, halt, missed, bounds>>
    BY <1>5 DEF OwnMembers
  <2> HIDE DEF o
  <2>3. /\ Sockets' /\ Dropped /\ OwnType'
        /\ streamedByUs' \subseteq Profiles /\ intended' \subseteq Profiles
    BY <2>1, <2>2, OwnVisitKeeps DEF Sets
  <2> QED
    BY <1>3, <2>2, <2>3 DEF Sets, Bounds, bounds
<1>6. CASE OwnIndeterminate
  <2>1. OwnType'
    BY <1>6, NobodyTypes DEF OwnIndeterminate, OwnType
  <2>2. Bounds'
    BY <1>6, BoundsKept DEF OwnIndeterminate, bounds
  <2> QED
    BY <1>3, <1>6, <2>1, <2>2, SocketsSame DEF OwnIndeterminate, Sets, pool
<1>7. CASE OwnLoop
  <2>1. OwnVisit(own) /\ UNCHANGED <<env, watch, halt, missed, bounds>>
    BY <1>7 DEF OwnLoop
  <2>2. /\ Sockets' /\ Dropped /\ OwnType'
        /\ streamedByUs' \subseteq Profiles /\ intended' \subseteq Profiles
    BY <2>1, OwnVisitKeeps DEF Sets, OwnType
  <2> QED
    BY <1>3, <2>1, <2>2 DEF Sets, Bounds, bounds
<1>8. CASE OwnCreds
  <2>1. OwnType'
    BY <1>2, <1>8 DEF OwnCreds, OwnType
  <2>2. Sockets' /\ Dropped
    BY <1>1, <1>8, RegisterKeeps, SocketsSame DEF OwnCreds
  <2>3. Bounds'
    BY <1>8, BoundsKept DEF OwnCreds, bounds
  <2> QED
    BY <1>3, <1>8, <2>1, <2>2, <2>3 DEF OwnCreds, Sets
<1>9. CASE OwnOpened
  <2>1. OwnType'
    BY <1>2, <1>9 DEF OwnOpened, OwnType
  <2>2. Sockets' /\ Dropped
    BY <1>1, <1>9, TeardownKeeps, SocketsSame DEF OwnOpened
  <2> QED
    BY <1>3, <1>9, <2>1, <2>2 DEF OwnOpened, Sets, Bounds, bounds
<1>10. CASE OwnResync
  <2>1. OwnType'
    BY <1>2, <1>10 DEF OwnResync, OwnType
  <2>2. Sockets' /\ Dropped
    BY <1>10, SocketsSame DEF OwnResync, pool
  <2>3. missed' \subseteq active
    BY <1>10 DEF OwnResync, Resync, Sets
  <2> QED
    BY <1>3, <1>10, <2>1, <2>2, <2>3 DEF OwnResync, Sets, Bounds, bounds, pool
<1> QED
  BY <1>4, <1>5, <1>6, <1>7, <1>8, <1>9, <1>10 DEF OwnStep

\* A watchdog pass visits one profile.
LEMMA WatchVisitKeeps ==
  ASSUME Sockets, WatchType, NEW k \in 1..MaxPasses, NEW w \in Pass, WatchVisit(k, w)
  PROVE  Sockets' /\ Dropped /\ WatchType'
<1>1. ASSUME NEW p \in w.todo, NEW skip,
             watch' = [watch EXCEPT ![k] =
                         [w EXCEPT !.pc = "creds", !.p = p, !.todo = @ \ (skip \cup {p}),
                                   !.silent = conns[p].quiet = "silent"]],
             Teardown(p)
      PROVE  Sockets' /\ Dropped /\ WatchType'
  <2> DEFINE v == [w EXCEPT !.pc = "creds", !.p = p, !.todo = @ \ (skip \cup {p}),
                            !.silent = conns[p].quiet = "silent"]
  <2>1. p \in Profiles /\ w.todo \ (skip \cup {p}) \in SUBSET Profiles
        /\ (conns[p].quiet = "silent") \in BOOLEAN
    BY DEF Pass
  <2>2. v \in Pass
    BY <2>1 DEF Pass
  <2> HIDE DEF v
  <2>3. WatchType'
    BY <1>1, <2>2 DEF WatchType, v
  <2> QED
    BY <1>1, <2>1, <2>3, TeardownKeeps
<1>2. ASSUME watch' = [watch EXCEPT ![k] = NoPass], UNCHANGED sockets
      PROVE  Sockets' /\ Dropped /\ WatchType'
  BY <1>2, NobodyTypes, SocketsSame DEF WatchType
<1> QED
  BY <1>1, <1>2 DEF WatchVisit

\* Every action of a watchdog pass.
LEMMA WatchKeeps ==
  ASSUME IInv, NEW k \in 1..MaxPasses, WatchStart(k) \/ WatchStep(k) PROVE IInv' /\ Dropped
<1> USE DEF IInv
<1>1. watch[k] \in Pass /\ watch[k].p \in Profiles
  BY DEF WatchType, Pass
<1>2. ASSUME NEW pc \in {"loop", "creds", "opened", "resync", "silence"},
             watch' = [watch EXCEPT ![k].pc = pc]
      PROVE  WatchType'
  <2>1. [watch[k] EXCEPT !.pc = pc] \in Pass
    BY <1>1 DEF Pass
  <2>2. watch' = [watch EXCEPT ![k] = [watch[k] EXCEPT !.pc = pc]]
    BY <1>2
  <2> QED
    BY <2>1, <2>2 DEF WatchType
<1>3. Reopened(watch[k]) \in {"loop", "silence"}
  BY DEF Reopened
<1>4. ASSUME Sockets', Dropped, WatchType', UNCHANGED <<env, streamedByUs, own, intended, halt>>,
             Bounds', missed' \subseteq active
      PROVE  IInv' /\ Dropped
  BY <1>4 DEF env, OwnType, HaltType, Sets
<1>5. CASE WatchStart(k) \/ WatchLoop(k)
  <2>1. [NoPass EXCEPT !.todo = intended] \in Pass
    BY NobodyTypes DEF Pass, Sets
  <2>2. Sockets' /\ Dropped /\ WatchType'
    BY <1>1, <1>5, <2>1, WatchVisitKeeps DEF WatchStart, WatchLoop
  <2> QED
    BY <1>4, <1>5, <2>2 DEF WatchStart, WatchLoop, Sets, Bounds, bounds
<1>6. CASE WatchCreds(k)
  <2>1. Sockets' /\ Dropped
    BY <1>1, <1>6, RegisterKeeps, SocketsSame DEF WatchCreds
  <2>2. WatchType'
    BY <1>2, <1>3, <1>6 DEF WatchCreds
  <2>3. Bounds'
    BY <1>6, BoundsKept DEF WatchCreds, bounds
  <2> QED
    BY <1>4, <1>6, <2>1, <2>2, <2>3 DEF WatchCreds, Sets
<1>7. CASE WatchOpened(k) \/ WatchSilence(k)
  <2>1. WatchType'
    BY <1>2, <1>3, <1>7 DEF WatchOpened, WatchSilence
  <2>2. Sockets' /\ Dropped
    BY <1>7, SocketsSame DEF WatchOpened, WatchSilence, pool
  <2> QED
    BY <1>4, <1>7, <2>1, <2>2 DEF WatchOpened, WatchSilence, Sets, Bounds, bounds, pool
<1>8. CASE WatchResync(k)
  <2>1. WatchType'
    BY <1>2, <1>3, <1>8 DEF WatchResync
  <2>2. Sockets' /\ Dropped
    BY <1>8, SocketsSame DEF WatchResync, pool
  <2>3. missed' \subseteq active
    BY <1>8 DEF WatchResync, Resync, Sets
  <2> QED
    BY <1>4, <1>8, <2>1, <2>2, <2>3 DEF WatchResync, Bounds, bounds, pool
<1> QED
  BY <1>5, <1>6, <1>7, <1>8 DEF WatchStep

\* The shutdown.
LEMMA HaltKeeps ==
  ASSUME IInv, StopOwnership \/ CloseAll PROVE IInv' /\ Dropped
<1> USE DEF IInv
<1>1. ASSUME Sockets', Dropped, HaltType', Bounds', intended' \subseteq Profiles,
             UNCHANGED <<env, streamedByUs, own, watch, missed>>
      PROVE  IInv' /\ Dropped
  BY <1>1 DEF env, OwnType, WatchType, Sets
<1>2. CASE StopOwnership
  <2>1. HaltType'
    BY <1>2 DEF StopOwnership, HaltType
  <2>2. Bounds'
    BY <1>2, BoundsKept DEF StopOwnership
  <2> QED
    BY <1>1, <1>2, <2>1, <2>2, SocketsSame DEF StopOwnership, pool, Sets
<1>3. CASE CloseAll
  <2>1. ASSUME NEW todo \in SUBSET Profiles, HaltVisit(todo)
        PROVE  Sockets' /\ Dropped /\ HaltType' /\ intended' \subseteq Profiles
    <3>1. HaltType'
      BY SMT, <2>1 DEF HaltVisit, HaltType
    <3>2. Sockets' /\ Dropped /\ intended' \subseteq Profiles
      BY <2>1, CloseKeeps, SocketsSame DEF HaltVisit, pool, Sets
    <3> QED
      BY <3>1, <3>2
  <2>2. halt.todo \in SUBSET Profiles
    BY DEF HaltType
  <2>3. Sockets' /\ Dropped /\ HaltType' /\ intended' \subseteq Profiles
    BY <1>3, <2>1, <2>2 DEF CloseAll, Sets
  <2> QED
    BY <1>1, <1>3, <2>3 DEF CloseAll, Bounds, bounds
<1> QED
  BY <1>2, <1>3

\* Sockets, the server and fills.
LEMMA SocketEventKeeps ==
  ASSUME IInv, NEW p \in Profiles,
         Subscribed(p) \/ FallsQuiet(p) \/ Pong(p) \/ Fill(p) \/ OnClose(p) \/ OnCloseOld(p)
  PROVE  IInv' /\ Dropped
<1> USE DEF IInv
<1>1. ASSUME Sockets', Dropped, Bounds', missed' \subseteq active,
             UNCHANGED <<env, streamedByUs, own, intended, watch, halt>>
      PROVE  IInv' /\ Dropped
  BY <1>1 DEF env, OwnType, WatchType, HaltType, Sets
<1>2. /\ conns[p] \in [phase : {"none", "connecting", "subscribed"}, quiet : {"no", "idle", "silent"}]
      /\ conns[p] # NoConn => conns[p] \in [phase : {"connecting", "subscribed"},
                                            quiet : {"no", "idle", "silent"}]
  BY DEF Sockets
<1>3. ASSUME NEW q \in {"no", "idle", "silent"}, conns[p] # NoConn,
             conns' = [conns EXCEPT ![p].quiet = q], UNCHANGED <<open, closing>>
      PROVE  Sockets' /\ Dropped
  <2>1. [conns[p] EXCEPT !.quiet = q] \in [phase : {"connecting", "subscribed"},
                                           quiet : {"no", "idle", "silent"}]
    BY <1>2, <1>3
  <2>2. conns' = [conns EXCEPT ![p] = [conns[p] EXCEPT !.quiet = q]]
    BY <1>3
  <2> QED
    BY <1>3, <2>1, <2>2, RewriteKeeps
<1>4. CASE Subscribed(p)
  <2>1. conns[p] # NoConn
    BY SMT, <1>4 DEF Subscribed, NoConn
  <2>2. [conns[p] EXCEPT !.phase = "subscribed"] \in [phase : {"connecting", "subscribed"},
                                                      quiet : {"no", "idle", "silent"}]
    BY <1>2, <2>1
  <2>3. conns' = [conns EXCEPT ![p] = [conns[p] EXCEPT !.phase = "subscribed"]]
    BY <1>4 DEF Subscribed
  <2>4. Sockets' /\ Dropped
    BY <1>4, <2>1, <2>2, <2>3, RewriteKeeps DEF Subscribed
  <2> QED
    BY <1>1, <1>4, <2>4 DEF Subscribed, Sets, Bounds, bounds
<1>5. CASE FallsQuiet(p)
  <2>1. Sockets' /\ Dropped
    BY <1>3, <1>5 DEF FallsQuiet
  <2>2. Bounds'
    BY <1>5, BoundsKept DEF FallsQuiet
  <2> QED
    BY <1>1, <1>5, <2>1, <2>2 DEF FallsQuiet, Sets
<1>6. CASE Pong(p)
  <2>1. conns[p] # NoConn
    BY SMT, <1>6 DEF Pong, NoConn
  <2>2. Sockets' /\ Dropped
    BY <1>3, <1>6, <2>1 DEF Pong
  <2> QED
    BY <1>1, <1>6, <2>2 DEF Pong, Sets, Bounds, bounds
<1>7. CASE Fill(p)
  <2>1. Sockets' /\ Dropped
    <3>1. CASE conns[p].phase = "subscribed"
      <4>1. conns[p] # NoConn
        BY SMT, <3>1 DEF NoConn
      <4> QED
        BY <1>3, <1>7, <3>1, <4>1 DEF Fill
    <3>2. CASE conns[p].phase # "subscribed"
      BY <1>7, <3>2, SocketsSame DEF Fill, sockets
    <3> QED
      BY <3>1, <3>2
  <2>2. missed' \subseteq active
    BY <1>7 DEF Fill, Sets
  <2> QED
    BY <1>1, <1>7, <2>1, <2>2 DEF Fill, Bounds, bounds
<1>8. CASE OnClose(p)
  <2>1. Sockets' /\ Dropped
    BY <1>8, RemoveKeeps DEF OnClose, Sockets
  <2>2. Bounds'
    BY <1>8, BoundsKept DEF OnClose
  <2> QED
    BY <1>1, <1>8, <2>1, <2>2 DEF OnClose, Sets
<1>9. CASE OnCloseOld(p)
  <2>1. UNCHANGED conns /\ Dropped
    BY <1>9 DEF OnCloseOld, Unmap, Dropped
  <2>2. CASE closing' = closing \ {p} /\ UNCHANGED <<open, faults>>
    <3>1. Sockets'
      BY <2>1, <2>2 DEF Sockets
    <3> QED
      BY <1>1, <1>9, <2>1, <2>2, <3>1 DEF OnCloseOld, Sets, Bounds
  <2>3. CASE /\ open[p] > IF conns[p] = NoConn THEN 0 ELSE 1
             /\ Fault
             /\ open' = [open EXCEPT ![p] = @ - 1]
             /\ UNCHANGED closing
    <3>1. open[p] \in Nat /\ open \in [Profiles -> Nat]
      BY DEF Sockets
    <3>2. open[p] - 1 \in Nat /\ (conns[p] # NoConn => open[p] - 1 > 0)
      BY SMT, <2>3, <3>1
    <3>3. open' \in [Profiles -> Nat] /\ open'[p] = open[p] - 1
          /\ \A q \in Profiles : q # p => open'[q] = open[q]
      BY <2>3, <3>1, <3>2
    <3>4. Sockets'
      BY <2>1, <2>3, <3>2, <3>3 DEF Sockets
    <3>5. Bounds'
      BY <1>9, <2>3, BoundsKept DEF OnCloseOld
    <3> QED
      BY <1>1, <1>9, <2>1, <3>4, <3>5 DEF OnCloseOld, Sets
  <2> QED
    BY <1>9, <2>2, <2>3 DEF OnCloseOld
<1> QED
  BY <1>4, <1>5, <1>6, <1>7, <1>8, <1>9

\* The active set and the fleet.
LEMMA OutsideKeeps ==
  ASSUME IInv, ActiveChanges \/ FleetChanges \/ Beat PROVE IInv' /\ Dropped
<1> USE DEF IInv
<1>1. Sockets' /\ Dropped /\ UNCHANGED <<own, watch, halt, streamedByUs, intended>>
  BY SocketsSame DEF ActiveChanges, FleetChanges, Beat, pool
<1>2. Bounds'
  BY BoundsKept DEF ActiveChanges, FleetChanges, Beat
<1>3. Sets'
  BY <1>1 DEF ActiveChanges, FleetChanges, Beat, Sets, Members
<1> QED
  BY <1>1, <1>2, <1>3 DEF OwnType, WatchType, HaltType

\* Every step keeps the invariant, and drops no live socket.
LEMMA StepKeeps == IInv /\ [Next]_vars => IInv' /\ Dropped
<1> SUFFICES ASSUME IInv, [Next]_vars PROVE IInv' /\ Dropped
  OBVIOUS
<1>1. CASE UNCHANGED vars
  <2>1. Sockets' /\ Dropped
    BY <1>1, SocketsSame DEF IInv, vars, pool
  <2> QED
    BY <1>1, <2>1 DEF IInv, vars, env, pool, bounds, OwnType, WatchType, HaltType, Sets, Bounds
<1> QED
  BY <1>1, OwnKeeps, WatchKeeps, HaltKeeps, SocketEventKeeps, OutsideKeeps DEF Next

\* The invariant holds at the start.
LEMMA InitHolds == Init => IInv
<1> SUFFICES ASSUME Init PROVE IInv
  OBVIOUS
<1>1. NoConn \in [phase : {"none", "connecting", "subscribed"}, quiet : {"no", "idle", "silent"}]
  BY DEF NoConn
<1>2. Sockets
  BY <1>1 DEF Init, Sockets
<1>3. OwnType /\ WatchType /\ HaltType
  BY NobodyTypes DEF Init, OwnType, WatchType, HaltType
<1>4. Sets /\ Bounds
  BY SMT, StreamsAssumption DEF Init, Sets, Bounds, Members
<1> QED
  BY <1>2, <1>3, <1>4 DEF IInv

(***************************************************************************)
(* The theorems.                                                           *)
(***************************************************************************)

\* user-stream-pool.ts: every entry of the pool's map stands for a socket the server
\* has open, whichever passes, closes and failures overlap.
THEOREM StreamsTypes == Spec => []TypeOK
<1>1. Spec => []IInv
  BY InitHolds, StepKeeps, PTL DEF Spec
<1> QED
  BY <1>1, IInvTypes, PTL

\* user-stream-pool.ts, close, reconnect and onClose: a connection leaves the map only
\* together with its socket; the close event of a replaced socket takes nothing.
THEOREM StreamsNeverStranded == Spec => NeverStranded
<1>1. Spec => []IInv
  BY InitHolds, StepKeeps, PTL DEF Spec
<1>2. IInv /\ [Next]_vars => [Dropped]_vars
  BY StepKeeps
<1> QED
  BY <1>1, <1>2, PTL DEF Spec, NeverStranded, Dropped
================================================================================
