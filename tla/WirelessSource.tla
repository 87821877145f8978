--------------------------- MODULE WirelessSource ---------------------------
(***************************************************************************)
(* What the access point tells of its interfaces and their clients         *)
(* (internal/wireless: Source) and the calls that ask: client.kick,        *)
(* clients.list, system.info (internal/handlers).  The interfaces and the  *)
(* stations are read live from the kernel, one netlink dump at a time;     *)
(* which radio an interface belongs to comes from netifd through ubus, and *)
(* is cached for StatusTTL, an error too.  The mutex is held for as long   *)
(* as the ubus call takes.  Meanwhile interfaces come and go and a client  *)
(* roams.                                                                  *)
(*                                                                         *)
(* The kernel, netifd and hostapd are external.  An interface is an access *)
(* point, and its name stays with one radio.                               *)
(***************************************************************************)
EXTENDS Integers, FiniteSets

CONSTANTS
  Caller,              \* goroutines of requests
  Ifname,              \* the interfaces
  None,                \* no interface
  TTL,                 \* StatusTTL, in ticks
  Asks,                \* the kinds of calls each makes
  MaxChanges           \* bound on the changes around them

VARIABLES
  kernel,              \* the interfaces nl80211 has
  netifd,              \* the interfaces netifd reports
  ubus,                \* ubus answers
  client,              \* where the client is associated
  cache,               \* status, statusErr, statusAt
  mutex,               \* who is in the ubus call
  call,                \* the requests
  changes,             \* the changes so far
  stayed               \* history: since the request, one for clients, began the
                       \* client has been on one interface that was there for
                       \* everyone

environment == <<kernel, netifd, ubus, client, changes>>
vars == <<environment, cache, mutex, call, stayed>>

\* clients.list and system.info go through all stations; the capabilities only
\* look at the interfaces.
Kind == {"kick", "list", "look"}

ASSUME SourceAssumption ==
  /\ None \notin Ifname \cup Caller /\ IsFiniteSet(Ifname)
  /\ TTL \in Nat \ {0} /\ MaxChanges \in Nat
  /\ Asks \in [Caller -> SUBSET Kind]

-----------------------------------------------------------------------------
(* The cache. *)

Status == [err : BOOLEAN, names : SUBSET Ifname]
NoStatus == [err |-> TRUE, names |-> {}]

\* A variant with a defect, for the properties to catch.
FreshAndFailed == cache.valid /\ (cache.age < TTL \/ cache.status.err)

Fresh == cache.valid /\ cache.age < TTL

\* What a ubus call gets.
Reported == IF ubus THEN [err |-> FALSE, names |-> netifd] ELSE NoStatus

\* A variant with a defect.
InvalidatedNothing == cache

Invalidated == [cache EXCEPT !.valid = FALSE]

-----------------------------------------------------------------------------
(* Inventory. *)

NoCall == [pc |-> "idle", kind |-> "kick", hint |-> None, ifaces |-> {},
           status |-> NoStatus, refreshed |-> FALSE, todo |-> {},
           found |-> None, listed |-> 0, named |-> TRUE]

At(k, pc) == call[k].pc = pc

Begins(k, kind, hint) ==
  /\ At(k, "idle")
  /\ call' = [call EXCEPT ![k] = [NoCall EXCEPT !.pc = "dump", !.kind = kind,
                                                !.hint = hint]]
  /\ stayed' = [stayed EXCEPT ![k] = /\ kind # "look" /\ client # None
                                      /\ client \in kernel \cap netifd]
  /\ UNCHANGED <<environment, cache, mutex>>

\* The dump of the interfaces; without nl80211 the call ends.
Dumps(k) ==
  /\ At(k, "dump")
  /\ call' = [call EXCEPT ![k].ifaces = kernel, ![k].pc = "status"]
  /\ UNCHANGED <<environment, cache, mutex, stayed>>

StatusCached(k) ==
  /\ At(k, "status") /\ mutex = None /\ Fresh
  /\ call' = [call EXCEPT ![k].status = cache.status, ![k].pc = "have"]
  /\ UNCHANGED <<environment, cache, mutex, stayed>>

StatusAsks(k) ==
  /\ At(k, "status") /\ mutex = None /\ ~Fresh
  /\ mutex' = k
  /\ call' = [call EXCEPT ![k].status = Reported, ![k].pc = "ubus"]
  /\ UNCHANGED <<environment, cache, stayed>>

StatusAnswers(k) ==
  /\ At(k, "ubus")
  /\ mutex' = None
  /\ cache' = [valid |-> TRUE, age |-> 0, status |-> call[k].status]
  /\ call' = [call EXCEPT ![k].pc = "have"]
  /\ UNCHANGED <<environment, stayed>>

\* An interface that the status does not know: it is asked for once more.
Unknown(c) == ~c.status.err /\ ~c.refreshed /\ ~(c.ifaces \subseteq c.status.names)

Invalidates(k) ==
  /\ At(k, "have") /\ Unknown(call[k]) /\ mutex = None
  /\ cache' = Invalidated
  /\ call' = [call EXCEPT ![k].pc = "status", ![k].refreshed = TRUE]
  /\ UNCHANGED <<environment, mutex, stayed>>

\* The interfaces of both, by their radio; without netifd all that nl80211 has,
\* by their phy.
Listed(c) == IF c.status.err THEN c.ifaces ELSE c.ifaces \cap c.status.names

Lists(k) ==
  /\ At(k, "have") /\ ~Unknown(call[k])
  /\ call' = [call EXCEPT ![k].pc = IF call[k].kind = "look" THEN "done" ELSE "scan",
                          ![k].todo = IF call[k].kind = "look" THEN {} ELSE Listed(call[k]),
                          ![k].named = ~call[k].status.err,
                          ![k].ifaces = {}, ![k].status = NoStatus,
                          ![k].refreshed = FALSE]
  /\ UNCHANGED <<environment, cache, mutex, stayed>>

-----------------------------------------------------------------------------
(* The clients. *)

\* FindClient tries the hint first and stops where the client is.
ScanOrder(c, i) == c.kind = "kick" /\ c.hint \in c.todo => i = c.hint

\* A dump of the stations of one interface; one that has gone is passed over.
Scans(k, i) ==
  LET here == client = i /\ i \in kernel
      c == call[k]
  IN  /\ At(k, "scan") /\ i \in c.todo /\ ScanOrder(c, i)
      /\ call' = [call EXCEPT
           ![k].todo = IF here /\ c.kind = "kick" THEN {} ELSE c.todo \ {i},
           ![k].listed = IF here THEN c.listed + 1 ELSE c.listed,
           ![k].found = IF here THEN i ELSE c.found,
           ![k].pc = IF here /\ c.kind = "kick" THEN "kick" ELSE "scan"]
      /\ UNCHANGED <<environment, cache, mutex, stayed>>

ScanEnds(k) ==
  /\ At(k, "scan") /\ call[k].todo = {}
  /\ call' = [call EXCEPT ![k].pc = "done"]
  /\ UNCHANGED <<environment, cache, mutex, stayed>>

\* Whoever was asked to leave is no longer where it was.
Moved(from) ==
  stayed' = [k \in Caller |-> stayed[k] /\ client # from]

\* hostapd's del_client, on the interface where the client was found.
Kicks(k) ==
  /\ At(k, "kick")
  /\ LET hits == client = call[k].found /\ client \in kernel
     IN  /\ client' = IF hits THEN None ELSE client
         /\ IF hits THEN Moved(call[k].found) ELSE UNCHANGED stayed
  /\ call' = [call EXCEPT ![k].pc = "done"]
  /\ UNCHANGED <<kernel, netifd, ubus, changes, cache, mutex>>

Returns(k) ==
  /\ At(k, "done")
  /\ call' = [call EXCEPT ![k] = NoCall]
  /\ stayed' = [stayed EXCEPT ![k] = FALSE]
  /\ UNCHANGED <<environment, cache, mutex>>

\* The dump of the interfaces fails, or the caller is gone.
Fails(k) ==
  /\ At(k, "dump")
  /\ call' = [call EXCEPT ![k] = NoCall]
  /\ stayed' = [stayed EXCEPT ![k] = FALSE]
  /\ UNCHANGED <<environment, cache, mutex>>

-----------------------------------------------------------------------------
(* Around them. *)

Changes == changes < MaxChanges /\ changes' = changes + 1

\* The interface appears in the kernel, or in netifd's status, or goes.
KernelChanges(i) ==
  /\ Changes
  /\ kernel' = IF i \in kernel THEN kernel \ {i} ELSE kernel \cup {i}
  /\ client' = IF client \notin kernel' THEN None ELSE client
  /\ Moved(i)
  /\ UNCHANGED <<netifd, ubus, cache, mutex, call>>

NetifdChanges(i) ==
  /\ Changes
  /\ netifd' = IF i \in netifd THEN netifd \ {i} ELSE netifd \cup {i}
  /\ Moved(i)
  /\ UNCHANGED <<kernel, ubus, client, cache, mutex, call>>

UbusChanges ==
  /\ Changes
  /\ ubus' = ~ubus
  /\ UNCHANGED <<kernel, netifd, client, cache, mutex, call, stayed>>

Roams(i) ==
  /\ Changes
  /\ i # client /\ i \in kernel \cup {None}
  /\ client' = i
  /\ stayed' = [k \in Caller |-> FALSE]
  /\ UNCHANGED <<kernel, netifd, ubus, cache, mutex, call>>

Tick ==
  /\ cache.age < TTL
  /\ cache' = [cache EXCEPT !.age = @ + 1]
  /\ UNCHANGED <<environment, mutex, call, stayed>>

-----------------------------------------------------------------------------

\* The daemon starts whenever it starts.
Init ==
  /\ kernel \in SUBSET Ifname /\ netifd = kernel /\ ubus \in BOOLEAN
  /\ client \in kernel \cup {None} /\ changes = 0
  /\ cache = [valid |-> FALSE, age |-> TTL, status |-> NoStatus]
  /\ mutex = None
  /\ call = [k \in Caller |-> NoCall]
  /\ stayed = [k \in Caller |-> FALSE]

CallStep(k) ==
  \/ Dumps(k) \/ StatusCached(k) \/ StatusAsks(k) \/ StatusAnswers(k)
  \/ Invalidates(k) \/ Lists(k) \/ \E i \in Ifname : Scans(k, i)
  \/ ScanEnds(k) \/ Kicks(k) \/ Returns(k)

Next ==
  \/ \E k \in Caller :
       \/ \E kind \in Asks[k] : Begins(k, kind, None)
       \/ "kick" \in Asks[k] /\ \E hint \in Ifname : Begins(k, "kick", hint)
       \/ CallStep(k) \/ Fails(k)
  \/ \E i \in Ifname : KernelChanges(i) \/ NetifdChanges(i)
  \/ \E i \in Ifname \cup {None} : Roams(i)
  \/ UbusChanges \/ Tick

Spec == Init /\ [][Next]_vars

\* A request runs to its end, and time passes.
Fairness ==
  /\ \A k \in Caller : SF_vars(CallStep(k))
  /\ WF_vars(Tick)

FairSpec == Spec /\ Fairness

-----------------------------------------------------------------------------
(* Properties. *)

TypeOK ==
  /\ kernel \subseteq Ifname /\ netifd \subseteq Ifname /\ ubus \in BOOLEAN
  /\ client \in Ifname \cup {None} /\ changes \in 0..MaxChanges
  /\ cache \in [valid : BOOLEAN, age : 0..TTL, status : Status]
  /\ mutex \in Caller \cup {None}
  /\ \A k \in Caller : mutex = k <=> At(k, "ubus")
  /\ stayed \in [Caller -> BOOLEAN]

\* A client that stayed where it was during a call is found: a kick goes to the
\* interface it is on, a list and a count have it once, even if its interface
\* is newer than the cached status, and whatever other calls do to the cache.
FindsWhoStays ==
  \A k \in Caller :
    At(k, "done") /\ stayed[k] =>
      /\ call[k].found = client
      /\ call[k].listed = 1

\* An error of ubus is not remembered for ever: once ubus answers, the radios
\* have their names again.
NamesComeBack ==
  \A k \in Caller :
    <>[]ubus => <>[](At(k, "done") => call[k].named)
=============================================================================
