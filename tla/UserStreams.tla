------------------------------ MODULE UserStreams ------------------------------
(***************************************************************************)
(* The user-data streams of one worker pod: which profiles it streams      *)
(* (user-stream/subscription-ownership.ts, elected by packages/core/hrw),  *)
(* and the pool that opens, watches and closes the sockets                 *)
(* (user-stream/user-stream-pool.ts).                                      *)
(*                                                                         *)
(* Three kinds of asynchronous function share the pool's two maps: one     *)
(* ownership pass (its inFlight flag admits no second), the watchdog       *)
(* passes (nothing stops an interval from starting one while another is    *)
(* suspended), and the shutdown. An action is what one of them does from   *)
(* one await to the next; a loop iteration that awaits nothing is part of  *)
(* the action that reaches the next await. Socket and server events come   *)
(* in between.                                                             *)
(***************************************************************************)
EXTENDS Integers, FiniteSets

CONSTANTS
  Profiles,           \* the profiles of the deployment
  Account,            \* the account each profile belongs to
  Self, Peers,        \* this pod and the other pods of the fleet
  Score,              \* hrwScore: the 64-bit hash of a (member, account) pair
  MaxPasses,          \* watchdog passes that can be suspended at once
  MaxChanges,         \* changes of the active set and of the fleet, and the shutdown
  MaxFaults           \* failed lookups, sockets that close or fall quiet

ASSUME StreamsAssumption ==
  /\ Profiles # {}
  /\ MaxPasses \in Nat /\ MaxChanges \in Nat /\ MaxFaults \in Nat

Members == {Self} \cup Peers

VARIABLES
  active,        \* profileManager.listActive()
  ready,         \* the ready members in Redis
  streamedByUs,  \* ownership's record of the streams it opened
  own,           \* the ownership pass
  intended,      \* the pool's intent
  conns,         \* the pool's connection of each profile: its ConnectionState
  open,          \* how many open sockets the server has of each profile
  closing,       \* profiles with a closed socket whose close event is still due
  watch,         \* the watchdog passes
  halt,          \* the shutdown
  missed,        \* profiles with a fill that came while they had no open socket,
                 \* and no resync since
  changes, faults

sockets == <<conns, open, closing>>
pool == <<intended, sockets>>
env == <<active, ready>>
bounds == <<changes, faults>>
vars == <<env, streamedByUs, own, pool, watch, halt, missed, bounds>>

\* quiet: "idle" when no frame came for idleThresholdMs, "silent" when frames
\* did but no account event for accountEventIdleMs.
NoConn == [phase |-> "none", quiet |-> "no"]
NoPass == [pc |-> "idle", p |-> CHOOSE p \in Profiles : TRUE, todo |-> {},
           silent |-> FALSE]
NoOwn == [pc |-> "idle", p |-> CHOOSE p \in Profiles : TRUE, todo |-> {},
          seen |-> {}, owned |-> {}]

Change == halt.pc = "up" /\ changes < MaxChanges /\ changes' = changes + 1
Fault == faults < MaxFaults /\ faults' = faults + 1

(***************************************************************************)
(* rendezvousOwner: the member with the highest score; ties go to the      *)
(* lexically smaller id, which a score function without ties stands for.   *)
(***************************************************************************)
rendezvousOwner(key, members) ==
  CHOOSE m \in members : \A n \in members : Score[n][key] <= Score[m][key]

Owned == {p \in active : Self \in ready /\ rendezvousOwner(Account[p], ready) = Self}

Init ==
  /\ active = Profiles
  /\ ready = {Self}
  /\ streamedByUs = {}
  /\ own = NoOwn
  /\ intended = {}
  /\ conns = [p \in Profiles |-> NoConn]
  /\ open = [p \in Profiles |-> 0]
  /\ closing = {}
  /\ watch = [k \in 1..MaxPasses |-> NoPass]
  /\ halt = [pc |-> "up", todo |-> {}]
  /\ missed = {}
  /\ changes = 0
  /\ faults = 0

(***************************************************************************)
(* The pool's synchronous pieces.                                          *)
(***************************************************************************)

\* openInternal after its credentials arrived: a new socket with fresh clocks
\* becomes the profile's connection, whatever conns holds by then.
Register(p) ==
  /\ conns' = [conns EXCEPT ![p] = [phase |-> "connecting", quiet |-> "no"]]
  /\ open' = [open EXCEPT ![p] = @ + 1]
  /\ UNCHANGED closing

\* Mutant of Teardown: the socket is closed and its entry left to onClose.
TeardownKeepsEntry(p) ==
  IF conns[p] = NoConn THEN UNCHANGED sockets
  ELSE /\ UNCHANGED conns
       /\ open' = [open EXCEPT ![p] = @ - 1]
       /\ closing' = closing \cup {p}

\* The connection leaves the map and its socket is told to close; the close
\* event comes later (OnClose).
Teardown(p) ==
  IF conns[p] = NoConn THEN UNCHANGED sockets
  ELSE /\ conns' = [conns EXCEPT ![p] = NoConn]
       /\ open' = [open EXCEPT ![p] = @ - 1]
       /\ closing' = closing \cup {p}

\* pool.close: revokes the intent, then closes what is connected.
Close(p) ==
  /\ intended' = intended \ {p}
  /\ Teardown(p)

\* onProfileResync: a profile that is no longer active has nothing to resync;
\* otherwise the backfill reads the fills the stream has missed. A failure is
\* logged and not retried.
Resync(p) == missed' = IF p \in active THEN missed \ {p} ELSE missed

(***************************************************************************)
(* Ownership: one reconcile.                                               *)
(***************************************************************************)

\* Visits that await nothing: an owned profile that is connected.
Connected(o) == {q \in o.todo \cap o.owned : conns[q] # NoConn}

\* From one await of reconcile to the next: skip what is connected, then open
\* an owned profile, close one that is not owned, or, when every active
\* profile has been visited, close one that left the active set; or finish.
OwnVisit(o) ==
  \/ \E p \in o.todo \ Connected(o), skip \in SUBSET Connected(o) :
       LET rest == [o EXCEPT !.pc = "loop", !.todo = @ \ (skip \cup {p})]
       IN  \/ /\ p \in o.owned
              /\ own' = [rest EXCEPT !.pc = "creds", !.p = p]
              /\ streamedByUs' = streamedByUs \cup skip \cup {p}
              /\ intended' = intended \cup {p}
              /\ UNCHANGED sockets
           \/ /\ p \notin o.owned
              /\ own' = rest
              /\ streamedByUs' = (streamedByUs \cup skip) \ {p}
              /\ Close(p)
  \/ /\ o.todo = Connected(o)
     /\ LET mine == streamedByUs \cup o.todo
        IN  \/ \E p \in mine \ o.seen :
                 /\ own' = [o EXCEPT !.pc = "loop", !.todo = {}]
                 /\ streamedByUs' = mine \ {p}
                 /\ Close(p)
            \/ /\ mine \subseteq o.seen
               /\ own' = NoOwn
               /\ streamedByUs' = mine
               /\ UNCHANGED pool

\* The interval, the reconciler or a pipeline job calls reconcile; while one is
\* in flight the call returns at once.
OwnStart ==
  /\ halt.pc = "up"
  /\ own.pc = "idle"
  /\ own' = [own EXCEPT !.pc = "members"]
  /\ UNCHANGED <<env, streamedByUs, pool, watch, halt, missed, bounds>>

\* Mutant of OwnMembers: profiles that left the active set are not closed.
OwnMembersOnly ==
  /\ own.pc = "members"
  /\ Self \in ready
  /\ OwnVisit([own EXCEPT !.todo = active, !.seen = Profiles, !.owned = Owned])
  /\ UNCHANGED <<env, watch, halt, missed, bounds>>

\* listReadyMembers answers: the election runs over this member set and over
\* the profiles active at this moment.
OwnMembers ==
  /\ own.pc = "members"
  /\ Self \in ready
  /\ OwnVisit([own EXCEPT !.todo = active, !.seen = active, !.owned = Owned])
  /\ UNCHANGED <<env, watch, halt, missed, bounds>>

\* The read fails, or this pod's own key has expired: keep what is open.
OwnIndeterminate ==
  /\ own.pc = "members"
  /\ Fault \/ (Self \notin ready /\ UNCHANGED faults)
  /\ own' = NoOwn
  /\ UNCHANGED <<env, streamedByUs, pool, watch, halt, missed, changes>>

OwnLoop ==
  /\ own.pc = "loop"
  /\ OwnVisit(own)
  /\ UNCHANGED <<env, watch, halt, missed, bounds>>

\* resolveCredentials answers open(): a socket, no credentials, or an error
\* that ends this open.
OwnCreds ==
  /\ own.pc = "creds"
  /\ \/ /\ Register(own.p)
        /\ own' = [own EXCEPT !.pc = "opened"]
        /\ UNCHANGED faults
     \/ /\ Fault
        /\ \E pc \in {"opened", "loop"} : own' = [own EXCEPT !.pc = pc]
        /\ UNCHANGED sockets
  /\ UNCHANGED <<env, streamedByUs, intended, watch, halt, missed, changes>>

\* open() looks at the intent again before it resyncs.
OwnOpened ==
  /\ own.pc = "opened"
  /\ IF own.p \in intended
     THEN own' = [own EXCEPT !.pc = "resync"] /\ UNCHANGED sockets
     ELSE own' = [own EXCEPT !.pc = "loop"] /\ Teardown(own.p)
  /\ UNCHANGED <<env, streamedByUs, intended, watch, halt, missed, bounds>>

OwnResync ==
  /\ own.pc = "resync"
  /\ own' = [own EXCEPT !.pc = "loop"]
  /\ Resync(own.p)
  /\ UNCHANGED <<env, streamedByUs, pool, watch, halt, bounds>>

(***************************************************************************)
(* The watchdog: runWatchdogOnce, up to MaxPasses of them at a time.       *)
(***************************************************************************)

\* Where a pass goes on once reconnect or the reopening has returned.
Reopened(w) == IF w.silent THEN "silence" ELSE "loop"

\* From one await of a pass to the next: reopen a missing connection, tear
\* down one whose socket or whose account stream went quiet and reopen it, or
\* finish. The pass measures ages from the time at which it began, so it may
\* also move past a connection that has fallen quiet since.
WatchVisit(k, w) ==
  LET present == {p \in w.todo : conns[p] # NoConn}
  IN  \/ \E p \in w.todo, skip \in SUBSET present :
           /\ p \notin skip
           /\ p \in present => conns[p].quiet # "no"
           /\ watch' = [watch EXCEPT ![k] =
                          [w EXCEPT !.pc = "creds", !.p = p,
                                    !.todo = @ \ (skip \cup {p}),
                                    !.silent = conns[p].quiet = "silent"]]
           /\ Teardown(p)
      \/ /\ present = w.todo
         /\ watch' = [watch EXCEPT ![k] = NoPass]
         /\ UNCHANGED sockets

\* The interval timer fires. The pass works on the intent it finds now; it
\* takes the first free slot.
WatchStart(k) ==
  /\ halt.pc \in {"up", "stopping"}
  /\ watch[k].pc = "idle" /\ \A j \in 1..k - 1 : watch[j].pc # "idle"
  /\ WatchVisit(k, [NoPass EXCEPT !.todo = intended])
  /\ UNCHANGED <<env, streamedByUs, own, intended, halt, missed, bounds>>

WatchLoop(k) ==
  /\ watch[k].pc = "loop"
  /\ WatchVisit(k, watch[k])
  /\ UNCHANGED <<env, streamedByUs, own, intended, halt, missed, bounds>>

\* resolveCredentials answers openInternal. An error skips the resync.
WatchCreds(k) ==
  LET w == watch[k] IN
  /\ w.pc = "creds"
  /\ \/ /\ Register(w.p)
        /\ watch' = [watch EXCEPT ![k].pc = "opened"]
        /\ UNCHANGED faults
     \/ /\ Fault
        /\ \E pc \in {"opened", Reopened(w)} : watch' = [watch EXCEPT ![k].pc = pc]
        /\ UNCHANGED sockets
  /\ UNCHANGED <<env, streamedByUs, own, intended, halt, missed, changes>>

\* Mutant of WatchOpened: no resync after the reopening.
WatchNoResync(k) ==
  /\ watch[k].pc = "opened"
  /\ watch' = [watch EXCEPT ![k].pc = Reopened(watch[k])]
  /\ UNCHANGED <<env, streamedByUs, own, pool, halt, missed, bounds>>

WatchOpened(k) ==
  /\ watch[k].pc = "opened"
  /\ watch' = [watch EXCEPT ![k].pc =
                 IF conns[watch[k].p] # NoConn THEN "resync" ELSE Reopened(watch[k])]
  /\ UNCHANGED <<env, streamedByUs, own, pool, halt, missed, bounds>>

WatchResync(k) ==
  /\ watch[k].pc = "resync"
  /\ watch' = [watch EXCEPT ![k].pc = Reopened(watch[k])]
  /\ Resync(watch[k].p)
  /\ UNCHANGED <<env, streamedByUs, own, pool, halt, bounds>>

\* After a silence trip the pass awaits onStreamSilent, which enqueues work for
\* another queue and changes nothing here.
WatchSilence(k) ==
  /\ watch[k].pc = "silence"
  /\ watch' = [watch EXCEPT ![k].pc = "loop"]
  /\ UNCHANGED <<env, streamedByUs, own, pool, halt, missed, bounds>>

(***************************************************************************)
(* Shutdown: the ownership interval stops, then closeAll stops the         *)
(* watchdog interval and closes the profiles intended at that moment.      *)
(* Passes already suspended are not stopped by either.                     *)
(***************************************************************************)

HaltVisit(todo) ==
  \/ \E p \in todo :
       /\ halt' = [pc |-> "closing", todo |-> todo \ {p}]
       /\ Close(p)
  \/ /\ todo = {}
     /\ halt' = [pc |-> "down", todo |-> {}]
     /\ UNCHANGED pool

StopOwnership ==
  /\ Change
  /\ halt' = [halt EXCEPT !.pc = "stopping"]
  /\ UNCHANGED <<env, streamedByUs, own, pool, watch, missed, faults>>

CloseAll ==
  /\ \/ halt.pc = "stopping" /\ HaltVisit(intended)
     \/ halt.pc = "closing" /\ HaltVisit(halt.todo)
  /\ UNCHANGED <<env, streamedByUs, own, watch, missed, bounds>>

(***************************************************************************)
(* Sockets and the server.                                                 *)
(***************************************************************************)

\* onOpen has sent the signed subscribe request and the server accepts it.
Subscribed(p) ==
  /\ conns[p].phase = "connecting"
  /\ conns' = [conns EXCEPT ![p].phase = "subscribed"]
  /\ UNCHANGED <<env, streamedByUs, own, intended, open, closing, watch, halt, missed, bounds>>

\* A threshold passes without a frame, or without an account event.
FallsQuiet(p) ==
  /\ conns[p] # NoConn
  /\ Fault
  /\ \E q \in {"idle", "silent"} : conns' = [conns EXCEPT ![p].quiet = q]
  /\ UNCHANGED <<env, streamedByUs, own, intended, open, closing, watch, halt, missed, changes>>

\* handleFrame, a heartbeat answer: it moves the socket's clock, never the
\* account-event clock.
Pong(p) ==
  /\ conns[p].quiet = "idle"
  /\ conns' = [conns EXCEPT ![p].quiet = "no"]
  /\ UNCHANGED <<env, streamedByUs, own, intended, open, closing, watch, halt, missed, bounds>>

\* An order of the profile fills. A subscribed connection delivers the report
\* and both clocks move; with no open socket at all the fill is missed.
Fill(p) ==
  /\ p \in active
  /\ halt.pc = "up"
  /\ conns' = IF conns[p].phase = "subscribed"
              THEN [conns EXCEPT ![p].quiet = "no"] ELSE conns
  /\ missed' = IF open[p] = 0 THEN missed \cup {p} ELSE missed
  /\ UNCHANGED <<env, streamedByUs, own, intended, open, closing, watch, halt, bounds>>

\* Mutant of OnClose: the entry of a socket the server closed stays.
OnCloseForgets(p) ==
  /\ conns[p] # NoConn
  /\ Fault
  /\ open' = [open EXCEPT ![p] = @ - 1]
  /\ UNCHANGED <<env, streamedByUs, own, intended, conns, closing, watch, halt, missed, changes>>

\* The server closes the socket in the map, and onClose drops the entry.
OnClose(p) ==
  /\ conns[p] # NoConn
  /\ Fault
  /\ conns' = [conns EXCEPT ![p] = NoConn]
  /\ open' = [open EXCEPT ![p] = @ - 1]
  /\ UNCHANGED <<env, streamedByUs, own, intended, closing, watch, halt, missed, changes>>

\* Mutant of Unmap: the entry is deleted whichever socket it holds.
BlindUnmap(p) == conns' = [conns EXCEPT ![p] = NoConn]

\* onClose of a socket the map no longer holds, one the pool closed or one that
\* another open replaced: the entry is not this socket, so it stays.
Unmap(p) == UNCHANGED conns

OnCloseOld(p) ==
  /\ \/ /\ p \in closing
        /\ closing' = closing \ {p}
        /\ UNCHANGED <<open, faults>>
     \/ /\ open[p] > IF conns[p] = NoConn THEN 0 ELSE 1
        /\ Fault
        /\ open' = [open EXCEPT ![p] = @ - 1]
        /\ UNCHANGED closing
  /\ Unmap(p)
  /\ UNCHANGED <<env, streamedByUs, own, intended, watch, halt, missed, changes>>

(***************************************************************************)
(* Outside: the profile manager's active set and the fleet. What they do   *)
(* once the worker is stopping is of no interest here.                     *)
(***************************************************************************)

ActiveChanges ==
  /\ Change
  /\ \E p \in Profiles :
       active' = IF p \in active THEN active \ {p} ELSE active \cup {p}
  /\ missed' = missed \cap active'
  /\ UNCHANGED <<ready, streamedByUs, own, pool, watch, halt, faults>>

FleetChanges ==
  /\ Change
  /\ \E m \in Members :
       ready' = IF m \in ready THEN ready \ {m} ELSE ready \cup {m}
  /\ UNCHANGED <<active, streamedByUs, own, pool, watch, halt, missed, faults>>

\* The member registry's heartbeat writes this pod's key again.
Beat ==
  /\ halt.pc = "up"
  /\ Self \notin ready
  /\ ready' = ready \cup {Self}
  /\ UNCHANGED <<active, streamedByUs, own, pool, watch, halt, missed, bounds>>

OwnStep == OwnMembers \/ OwnIndeterminate \/ OwnLoop \/ OwnCreds \/ OwnOpened \/ OwnResync

WatchStep(k) ==
  WatchLoop(k) \/ WatchCreds(k) \/ WatchOpened(k) \/ WatchResync(k) \/ WatchSilence(k)

Next ==
  \/ OwnStart \/ OwnStep
  \/ \E k \in 1..MaxPasses : WatchStart(k) \/ WatchStep(k)
  \/ StopOwnership \/ CloseAll
  \/ \E p \in Profiles :
       Subscribed(p) \/ FallsQuiet(p) \/ Pong(p) \/ Fill(p) \/ OnClose(p) \/ OnCloseOld(p)
  \/ ActiveChanges \/ FleetChanges \/ Beat

Spec == Init /\ [][Next]_vars

\* Intervals keep firing and suspended functions are resumed; the heartbeat
\* re-registers the pod.
Fairness ==
  /\ WF_vars(OwnStart \/ OwnStep)
  /\ \A k \in 1..MaxPasses : WF_vars(WatchStart(k) \/ WatchStep(k))
  /\ WF_vars(Beat)

FairSpec == Spec /\ Fairness

(***************************************************************************)
(* Properties.                                                             *)
(***************************************************************************)

\* Types, and what conns means: the connection of a profile is a socket the
\* server has open.
TypeOK ==
  /\ active \subseteq Profiles /\ ready \subseteq Members
  /\ streamedByUs \subseteq Profiles /\ intended \subseteq Profiles
  /\ conns \in [Profiles -> [phase : {"none", "connecting", "subscribed"},
                             quiet : {"no", "idle", "silent"}]]
  /\ open \in [Profiles -> Nat] /\ closing \subseteq Profiles
  /\ \A p \in Profiles : conns[p] # NoConn => open[p] > 0
  /\ own \in [pc : {"idle", "members", "loop", "creds", "opened", "resync"},
              p : Profiles, todo : SUBSET Profiles, seen : SUBSET Profiles,
              owned : SUBSET Profiles]
  /\ watch \in [1..MaxPasses ->
                  [pc : {"idle", "loop", "creds", "opened", "resync", "silence"},
                   p : Profiles, todo : SUBSET Profiles, silent : BOOLEAN]]
  /\ halt \in [pc : {"up", "stopping", "closing", "down"}, todo : SUBSET Profiles]
  /\ missed \subseteq active
  /\ changes \in 0..MaxChanges /\ faults \in 0..MaxFaults

\* A live socket is never dropped from the map: when a connection leaves it, by
\* whichever of the passes, events and teardowns, its socket is closing or gone.
\* onClose of a replaced socket must not take the replacement's entry.
NeverStranded ==
  [][\A p \in Profiles : conns[p] # NoConn /\ conns'[p] = NoConn =>
       open'[p] = open[p] - 1]_vars

Stopping == halt.pc # "up"

\* A profile the pool means to stream gets an open socket again after any server
\* close, failed credential lookup or teardown, unless its intent is revoked: a
\* missing connection is seen as missing, and then reopened by one of the passes.
Reconnects ==
  \A p \in Profiles : p \in intended ~> (open[p] > 0 \/ p \notin intended \/ Stopping)

\* A fill that came while a streamed profile had no socket is followed by a
\* resync of that profile, which backfills it, whichever pass reopens the stream.
GapsResynced ==
  \A p \in Profiles :
    (p \in missed /\ p \in intended) ~> (p \notin missed \/ p \notin intended \/ Stopping)

\* Once the active set and the fleet stop changing, the pool means to stream the
\* active profiles whose account hashes to this pod, and no other.
OwnershipConverges == <>[](intended = Owned \/ Stopping)

\* The comment in open() ("so the invariant 'intended contains conns' holds and
\* the watchdog never sees an orphan connection"): outside open()'s own check, a
\* connection belongs to a profile the pool means to stream.
IntendedCoversConns ==
  \A p \in Profiles :
    conns[p] # NoConn => p \in intended \/ (own.pc = "opened" /\ own.p = p)

================================================================================
