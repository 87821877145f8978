------------------------- MODULE WirelessSourceProofs -------------------------
(***************************************************************************)
(* A client that stays is found, for any callers and interfaces, however   *)
(* old the cached status may get and whatever changes around the requests. *)
(***************************************************************************)
EXTENDS WirelessSource, TLAPS

-----------------------------------------------------------------------------
(* Types: TypeOK, and what a request has read.                             *)

Request ==
  [pc : {"idle", "dump", "status", "ubus", "have", "scan", "kick", "done"},
   kind : Kind, hint : Ifname \cup {None}, ifaces : SUBSET Ifname,
   status : Status, refreshed : BOOLEAN, todo : SUBSET Ifname,
   found : Ifname \cup {None}, listed : Nat, named : BOOLEAN]

CallsTyped == call \in [Caller -> Request]

Typed == TypeOK /\ CallsTyped

\* A step of k leaves the other requests alone.
Others(k) == \A m \in Caller : m # k => call'[m] = call[m]

LEMMA IdleTyped == NoCall \in Request /\ NoStatus \in Status
BY DEF NoCall, NoStatus, Request, Status, Kind

LEMMA ReportedTyped == TypeOK => Reported \in Status
BY IdleTyped DEF TypeOK, Reported, Status

\* A request is put in the place of another.
LEMMA Updated ==
  ASSUME CallsTyped, NEW k \in Caller, NEW r \in Request,
         call' = [call EXCEPT ![k] = r]
  PROVE  call'[k] = r /\ CallsTyped' /\ Others(k)
BY DEF CallsTyped, Others

-----------------------------------------------------------------------------
(* What each step of a request makes of it.                                *)

LEMMA BeginsIs ==
  ASSUME Typed, NEW k \in Caller, NEW kind \in Kind,
         NEW hint \in Ifname \cup {None}, Begins(k, kind, hint)
  PROVE  LET c == call'[k] IN
         /\ CallsTyped' /\ Others(k)
         /\ c.pc = "dump"
         /\ c.kind = kind
         /\ c.refreshed = FALSE
         /\ c.found = None
         /\ c.listed = 0
<1> DEFINE r == [NoCall EXCEPT !.pc = "dump", !.kind = kind, !.hint = hint]
<1>1. call[k] \in Request /\ TypeOK /\ CallsTyped
  BY DEF Typed, CallsTyped
<1>2. r \in Request
  BY IdleTyped DEF NoCall, Request
<1>3. call' = [call EXCEPT ![k] = r]
  BY DEF Begins
<1>4. /\ r.pc = "dump"
      /\ r.kind = kind
      /\ r.refreshed = FALSE
      /\ r.found = None
      /\ r.listed = 0
  BY <1>1 DEF Request, NoCall
<1> HIDE DEF r
<1>5. call'[k] = r /\ CallsTyped' /\ Others(k)
  BY <1>1, <1>2, <1>3, Updated
<1> QED BY <1>4, <1>5

LEMMA DumpsIs ==
  ASSUME Typed, NEW k \in Caller, Dumps(k)
  PROVE  LET c == call'[k] IN
         /\ CallsTyped' /\ Others(k)
         /\ c.pc = "status"
         /\ c.kind = call[k].kind
         /\ c.ifaces = kernel
         /\ c.refreshed = call[k].refreshed
         /\ c.found = call[k].found
         /\ c.listed = call[k].listed
<1> DEFINE r == [call[k] EXCEPT !.ifaces = kernel, !.pc = "status"]
<1>1. call[k] \in Request /\ TypeOK /\ CallsTyped
  BY DEF Typed, CallsTyped
<1>2. r \in Request
  BY <1>1 DEF TypeOK, Request
<1>3. call' = [call EXCEPT ![k] = r]
  BY DEF Dumps
<1>4. /\ r.pc = "status"
      /\ r.kind = call[k].kind
      /\ r.ifaces = kernel
      /\ r.refreshed = call[k].refreshed
      /\ r.found = call[k].found
      /\ r.listed = call[k].listed
  BY <1>1 DEF Request
<1> HIDE DEF r
<1>5. call'[k] = r /\ CallsTyped' /\ Others(k)
  BY <1>1, <1>2, <1>3, Updated
<1> QED BY <1>4, <1>5

LEMMA StatusCachedIs ==
  ASSUME Typed, NEW k \in Caller, StatusCached(k)
  PROVE  LET c == call'[k] IN
         /\ CallsTyped' /\ Others(k)
         /\ c.pc = "have"
         /\ c.kind = call[k].kind
         /\ c.status = cache.status
         /\ c.ifaces = call[k].ifaces
         /\ c.refreshed = call[k].refreshed
         /\ c.found = call[k].found
         /\ c.listed = call[k].listed
<1> DEFINE r == [call[k] EXCEPT !.status = cache.status, !.pc = "have"]
<1>1. call[k] \in Request /\ TypeOK /\ CallsTyped
  BY DEF Typed, CallsTyped
<1>2. r \in Request
  BY <1>1 DEF TypeOK, Request
<1>3. call' = [call EXCEPT ![k] = r]
  BY DEF StatusCached
<1>4. /\ r.pc = "have"
      /\ r.kind = call[k].kind
      /\ r.status = cache.status
      /\ r.ifaces = call[k].ifaces
      /\ r.refreshed = call[k].refreshed
      /\ r.found = call[k].found
      /\ r.listed = call[k].listed
  BY <1>1 DEF Request
<1> HIDE DEF r
<1>5. call'[k] = r /\ CallsTyped' /\ Others(k)
  BY <1>1, <1>2, <1>3, Updated
<1> QED BY <1>4, <1>5

LEMMA StatusAsksIs ==
  ASSUME Typed, NEW k \in Caller, StatusAsks(k)
  PROVE  LET c == call'[k] IN
         /\ CallsTyped' /\ Others(k)
         /\ c.pc = "ubus"
         /\ c.kind = call[k].kind
         /\ c.status = Reported
         /\ c.ifaces = call[k].ifaces
         /\ c.refreshed = call[k].refreshed
         /\ c.found = call[k].found
         /\ c.listed = call[k].listed
<1> DEFINE r == [call[k] EXCEPT !.status = Reported, !.pc = "ubus"]
<1>1. call[k] \in Request /\ TypeOK /\ CallsTyped
  BY DEF Typed, CallsTyped
<1>2. r \in Request
  BY ReportedTyped, <1>1 DEF TypeOK, Request
<1>3. call' = [call EXCEPT ![k] = r]
  BY DEF StatusAsks
<1>4. /\ r.pc = "ubus"
      /\ r.kind = call[k].kind
      /\ r.status = Reported
      /\ r.ifaces = call[k].ifaces
      /\ r.refreshed = call[k].refreshed
      /\ r.found = call[k].found
      /\ r.listed = call[k].listed
  BY <1>1 DEF Request
<1> HIDE DEF r
<1>5. call'[k] = r /\ CallsTyped' /\ Others(k)
  BY <1>1, <1>2, <1>3, Updated
<1> QED BY <1>4, <1>5

LEMMA StatusAnswersIs ==
  ASSUME Typed, NEW k \in Caller, StatusAnswers(k)
  PROVE  LET c == call'[k] IN
         /\ CallsTyped' /\ Others(k)
         /\ c.pc = "have"
         /\ c.kind = call[k].kind
         /\ c.status = call[k].status
         /\ c.ifaces = call[k].ifaces
         /\ c.refreshed = call[k].refreshed
         /\ c.found = call[k].found
         /\ c.listed = call[k].listed
<1> DEFINE r == [call[k] EXCEPT !.pc = "have"]
<1>1. call[k] \in Request /\ TypeOK /\ CallsTyped
  BY DEF Typed, CallsTyped
<1>2. r \in Request
  BY <1>1 DEF TypeOK, Request
<1>3. call' = [call EXCEPT ![k] = r]
  BY DEF StatusAnswers
<1>4. /\ r.pc = "have"
      /\ r.kind = call[k].kind
      /\ r.status = call[k].status
      /\ r.ifaces = call[k].ifaces
      /\ r.refreshed = call[k].refreshed
      /\ r.found = call[k].found
      /\ r.listed = call[k].listed
  BY <1>1 DEF Request
<1> HIDE DEF r
<1>5. call'[k] = r /\ CallsTyped' /\ Others(k)
  BY <1>1, <1>2, <1>3, Updated
<1> QED BY <1>4, <1>5

LEMMA InvalidatesIs ==
  ASSUME Typed, NEW k \in Caller, Invalidates(k)
  PROVE  LET c == call'[k] IN
         /\ CallsTyped' /\ Others(k)
         /\ c.pc = "status"
         /\ c.kind = call[k].kind
         /\ c.refreshed = TRUE
         /\ c.ifaces = call[k].ifaces
         /\ c.found = call[k].found
         /\ c.listed = call[k].listed
<1> DEFINE r == [call[k] EXCEPT !.pc = "status", !.refreshed = TRUE]
<1>1. call[k] \in Request /\ TypeOK /\ CallsTyped
  BY DEF Typed, CallsTyped
<1>2. r \in Request
  BY <1>1 DEF TypeOK, Request
<1>3. call' = [call EXCEPT ![k] = r]
  BY DEF Invalidates
<1>4. /\ r.pc = "status"
      /\ r.kind = call[k].kind
      /\ r.refreshed = TRUE
      /\ r.ifaces = call[k].ifaces
      /\ r.found = call[k].found
      /\ r.listed = call[k].listed
  BY <1>1 DEF Request
<1> HIDE DEF r
<1>5. call'[k] = r /\ CallsTyped' /\ Others(k)
  BY <1>1, <1>2, <1>3, Updated
<1> QED BY <1>4, <1>5

LEMMA ListsIs ==
  ASSUME Typed, NEW k \in Caller, Lists(k)
  PROVE  LET c == call'[k] IN
         /\ CallsTyped' /\ Others(k)
         /\ c.pc = IF call[k].kind = "look" THEN "done" ELSE "scan"
         /\ c.kind = call[k].kind
         /\ c.todo = IF call[k].kind = "look" THEN {} ELSE Listed(call[k])
         /\ c.found = call[k].found
         /\ c.listed = call[k].listed
<1> DEFINE r == [call[k] EXCEPT
             !.pc = IF call[k].kind = "look" THEN "done" ELSE "scan",
             !.todo = IF call[k].kind = "look" THEN {} ELSE Listed(call[k]),
             !.named = ~call[k].status.err, !.ifaces = {}, !.status = NoStatus,
             !.refreshed = FALSE]
<1>1. call[k] \in Request /\ TypeOK /\ CallsTyped
  BY DEF Typed, CallsTyped
<1>2. r \in Request
  <2>1. Listed(call[k]) \in SUBSET Ifname /\ (~call[k].status.err) \in BOOLEAN
    <3>1. call[k].ifaces \in SUBSET Ifname
      BY <1>1 DEF Request
    <3> QED BY <3>1 DEF Listed
  <2>2. /\ (IF call[k].kind = "look" THEN "done" ELSE "scan") \in {"done", "scan"}
        /\ (IF call[k].kind = "look" THEN {} ELSE Listed(call[k])) \in SUBSET Ifname
    BY <2>1
  <2> QED BY IdleTyped, <1>1, <2>1, <2>2 DEF Request
<1>3. call' = [call EXCEPT ![k] = r]
  BY DEF Lists
<1>4. /\ r.pc = IF call[k].kind = "look" THEN "done" ELSE "scan"
      /\ r.kind = call[k].kind
      /\ r.todo = IF call[k].kind = "look" THEN {} ELSE Listed(call[k])
      /\ r.found = call[k].found
      /\ r.listed = call[k].listed
  BY <1>1 DEF Request
<1> HIDE DEF r
<1>5. call'[k] = r /\ CallsTyped' /\ Others(k)
  BY <1>1, <1>2, <1>3, Updated
<1> QED BY <1>4, <1>5

LEMMA ScansIs ==
  ASSUME Typed, NEW k \in Caller, NEW i \in Ifname, Scans(k, i)
  PROVE  LET c == call'[k] IN
         /\ CallsTyped' /\ Others(k)
         /\ c.pc = IF client = i /\ i \in kernel /\ call[k].kind = "kick"
                THEN "kick" ELSE "scan"
         /\ c.kind = call[k].kind
         /\ c.todo = IF client = i /\ i \in kernel /\ call[k].kind = "kick"
                    THEN {} ELSE call[k].todo \ {i}
         /\ c.found = IF client = i /\ i \in kernel THEN i ELSE call[k].found
         /\ c.listed = IF client = i /\ i \in kernel THEN call[k].listed + 1
                    ELSE call[k].listed
<1> DEFINE r == [call[k] EXCEPT
             !.todo = IF client = i /\ i \in kernel /\ call[k].kind = "kick"
                      THEN {} ELSE call[k].todo \ {i},
             !.listed = IF client = i /\ i \in kernel THEN call[k].listed + 1
                                                     ELSE call[k].listed,
             !.found = IF client = i /\ i \in kernel THEN i ELSE call[k].found,
             !.pc = IF client = i /\ i \in kernel /\ call[k].kind = "kick"
                    THEN "kick" ELSE "scan"]
<1>1. call[k] \in Request /\ TypeOK /\ CallsTyped
  BY DEF Typed, CallsTyped
<1>2. r \in Request
  <2>1. /\ call[k].todo \ {i} \in SUBSET Ifname
        /\ call[k].listed \in Nat /\ call[k].listed + 1 \in Nat
        /\ call[k].found \in Ifname \cup {None} /\ i \in Ifname \cup {None}
    BY <1>1 DEF Request
  <2>2. /\ (IF client = i /\ i \in kernel THEN call[k].listed + 1
                                         ELSE call[k].listed) \in Nat
        /\ (IF client = i /\ i \in kernel THEN i ELSE call[k].found)
             \in Ifname \cup {None}
        /\ (IF client = i /\ i \in kernel /\ call[k].kind = "kick"
            THEN {} ELSE call[k].todo \ {i}) \in SUBSET Ifname
        /\ (IF client = i /\ i \in kernel /\ call[k].kind = "kick"
            THEN "kick" ELSE "scan") \in {"kick", "scan"}
    BY <2>1
  <2> QED BY <1>1, <2>1, <2>2 DEF Request
<1>3. call' = [call EXCEPT ![k] = r]
  BY DEF Scans
<1>4. /\ r.pc = IF client = i /\ i \in kernel /\ call[k].kind = "kick"
             THEN "kick" ELSE "scan"
      /\ r.kind = call[k].kind
      /\ r.todo = IF client = i /\ i \in kernel /\ call[k].kind = "kick"
                 THEN {} ELSE call[k].todo \ {i}
      /\ r.found = IF client = i /\ i \in kernel THEN i ELSE call[k].found
      /\ r.listed = IF client = i /\ i \in kernel THEN call[k].listed + 1
                 ELSE call[k].listed
  BY <1>1 DEF Request
<1> HIDE DEF r
<1>5. call'[k] = r /\ CallsTyped' /\ Others(k)
  BY <1>1, <1>2, <1>3, Updated
<1> QED BY <1>4, <1>5

LEMMA ScanEndsIs ==
  ASSUME Typed, NEW k \in Caller, ScanEnds(k)
  PROVE  LET c == call'[k] IN
         /\ CallsTyped' /\ Others(k)
         /\ c.pc = "done"
         /\ c.kind = call[k].kind
         /\ c.found = call[k].found
         /\ c.listed = call[k].listed
<1> DEFINE r == [call[k] EXCEPT !.pc = "done"]
<1>1. call[k] \in Request /\ TypeOK /\ CallsTyped
  BY DEF Typed, CallsTyped
<1>2. r \in Request
  BY <1>1 DEF TypeOK, Request
<1>3. call' = [call EXCEPT ![k] = r]
  BY DEF ScanEnds
<1>4. /\ r.pc = "done"
      /\ r.kind = call[k].kind
      /\ r.found = call[k].found
      /\ r.listed = call[k].listed
  BY <1>1 DEF Request
<1> HIDE DEF r
<1>5. call'[k] = r /\ CallsTyped' /\ Others(k)
  BY <1>1, <1>2, <1>3, Updated
<1> QED BY <1>4, <1>5

LEMMA KicksIs ==
  ASSUME Typed, NEW k \in Caller, Kicks(k)
  PROVE  LET c == call'[k] IN
         /\ CallsTyped' /\ Others(k)
         /\ c.pc = "done"
         /\ c.kind = call[k].kind
         /\ c.found = call[k].found
         /\ c.listed = call[k].listed
<1> DEFINE r == [call[k] EXCEPT !.pc = "done"]
<1>1. call[k] \in Request /\ TypeOK /\ CallsTyped
  BY DEF Typed, CallsTyped
<1>2. r \in Request
  BY <1>1 DEF TypeOK, Request
<1>3. call' = [call EXCEPT ![k] = r]
  BY DEF Kicks
<1>4. /\ r.pc = "done"
      /\ r.kind = call[k].kind
      /\ r.found = call[k].found
      /\ r.listed = call[k].listed
  BY <1>1 DEF Request
<1> HIDE DEF r
<1>5. call'[k] = r /\ CallsTyped' /\ Others(k)
  BY <1>1, <1>2, <1>3, Updated
<1> QED BY <1>4, <1>5

LEMMA ReturnsIs ==
  ASSUME Typed, NEW k \in Caller, Returns(k) \/ Fails(k)
  PROVE  LET c == call'[k] IN
         /\ CallsTyped' /\ Others(k)
         /\ c.pc = "idle"
<1> DEFINE r == NoCall
<1>1. call[k] \in Request /\ TypeOK /\ CallsTyped
  BY DEF Typed, CallsTyped
<1>2. r \in Request
  BY IdleTyped, <1>1 DEF TypeOK, Request
<1>3. call' = [call EXCEPT ![k] = r]
  BY DEF Returns, Fails
<1>4. /\ r.pc = "idle"
  BY <1>1 DEF Request, NoCall
<1> HIDE DEF r
<1>5. call'[k] = r /\ CallsTyped' /\ Others(k)
  BY <1>1, <1>2, <1>3, Updated
<1> QED BY <1>4, <1>5

-----------------------------------------------------------------------------
(* The types hold.                                                         *)

\* Which request is in the ubus call is not for the others to change.
LEMMA MutexKept ==
  ASSUME TypeOK, NEW k \in Caller, Others(k), UNCHANGED mutex,
         call[k].pc # "ubus", call'[k].pc # "ubus"
  PROVE  \A m \in Caller : mutex' = m <=> At(m, "ubus")'
BY DEF TypeOK, Others, At

\* A step of a request keeps what it does not touch: the types of the variables
\* around it and of the cache.
LEMMA TypesAround ==
  ASSUME TypeOK, UNCHANGED <<environment, cache>>, mutex' \in Caller \cup {None},
         \A m \in Caller : mutex' = m <=> At(m, "ubus")',
         stayed' \in [Caller -> BOOLEAN]
  PROVE  TypeOK'
BY DEF TypeOK, environment

LEMMA InitTyped == Init => Typed
<1> SUFFICES ASSUME Init  PROVE Typed
  OBVIOUS
<1>1. call \in [Caller -> Request] /\ \A k \in Caller : call[k].pc = "idle"
  BY IdleTyped DEF Init, NoCall
<1>2. cache \in [valid : BOOLEAN, age : 0..TTL, status : Status]
  BY IdleTyped, SourceAssumption DEF Init
<1>3. stayed \in [Caller -> BOOLEAN]
  BY DEF Init
<1>4. /\ kernel \subseteq Ifname /\ netifd \subseteq Ifname /\ ubus \in BOOLEAN
      /\ client \in Ifname \cup {None}
  BY DEF Init
<1>5. changes \in 0..MaxChanges
  BY SourceAssumption DEF Init
<1>6. mutex \in Caller \cup {None} /\ \A k \in Caller : mutex = k <=> At(k, "ubus")
  BY <1>1, SourceAssumption DEF Init, At
<1> QED BY <1>1, <1>2, <1>3, <1>4, <1>5, <1>6 DEF Typed, TypeOK, CallsTyped

LEMMA CallTyped ==
  ASSUME Typed, NEW k \in Caller, CallStep(k)
  PROVE  Typed'
<1>1. TypeOK /\ stayed \in [Caller -> BOOLEAN] /\ call[k] \in Request
  BY DEF Typed, TypeOK, CallsTyped
<1>2. /\ mutex \in Caller \cup {None} /\ None \notin Caller
      /\ \A m \in Caller : mutex = m <=> call[m].pc = "ubus"
  BY SourceAssumption DEF Typed, TypeOK, At
<1>3. CASE Dumps(k)
  <2>1. CallsTyped' /\ Others(k) /\ call'[k].pc = "status" /\ call[k].pc = "dump"
    BY <1>1, <1>3, DumpsIs DEF Dumps, At
  <2> QED BY <1>1, <1>2, <1>3, <2>1, MutexKept, TypesAround DEF Dumps, Typed
<1>4. CASE StatusCached(k)
  <2>1. CallsTyped' /\ Others(k) /\ call'[k].pc = "have" /\ call[k].pc = "status"
    BY <1>1, <1>4, StatusCachedIs DEF StatusCached, At
  <2> QED BY <1>1, <1>2, <1>4, <2>1, MutexKept, TypesAround DEF StatusCached, Typed
<1>5. CASE StatusAsks(k)
  <2>1. CallsTyped' /\ Others(k) /\ call'[k].pc = "ubus" /\ mutex = None /\ mutex' = k
    BY <1>1, <1>5, StatusAsksIs DEF StatusAsks
  <2>2. \A m \in Caller : mutex' = m <=> At(m, "ubus")'
    BY <1>2, <2>1 DEF Others, At
  <2> QED BY <1>1, <1>5, <2>1, <2>2, TypesAround DEF StatusAsks, Typed
<1>6. CASE StatusAnswers(k)
  <2>1. CallsTyped' /\ Others(k) /\ call'[k].pc = "have" /\ mutex = k /\ mutex' = None
    BY <1>1, <1>2, <1>6, StatusAnswersIs DEF StatusAnswers, At
  <2>2. \A m \in Caller : mutex' = m <=> At(m, "ubus")'
    BY <1>2, <2>1 DEF Others, At
  <2>3. cache' \in [valid : BOOLEAN, age : 0..TTL, status : Status]
    BY <1>1, <1>6, SourceAssumption DEF StatusAnswers, Request
  <2> QED BY <1>1, <1>6, <2>1, <2>2, <2>3
          DEF StatusAnswers, Typed, TypeOK, environment
<1>7. CASE Invalidates(k)
  <2>1. CallsTyped' /\ Others(k) /\ call'[k].pc = "status" /\ call[k].pc = "have"
    BY <1>1, <1>7, InvalidatesIs DEF Invalidates, At
  <2>2. \A m \in Caller : mutex' = m <=> At(m, "ubus")'
    BY <1>1, <1>7, <2>1, MutexKept DEF Invalidates
  <2>3. cache' \in [valid : BOOLEAN, age : 0..TTL, status : Status]
    BY <1>1, <1>7 DEF Invalidates, Invalidated, TypeOK
  <2> QED BY <1>1, <1>7, <2>1, <2>2, <2>3
          DEF Invalidates, Typed, TypeOK, environment
<1>8. CASE Lists(k)
  <2>1. CallsTyped' /\ Others(k) /\ call'[k].pc \in {"done", "scan"}
        /\ call[k].pc = "have"
    BY <1>1, <1>8, ListsIs DEF Lists, At
  <2> QED BY <1>1, <1>2, <1>8, <2>1, MutexKept, TypesAround DEF Lists, Typed
<1>9. CASE \E i \in Ifname : Scans(k, i)
  <2>1. PICK i \in Ifname : Scans(k, i)
    BY <1>9
  <2>2. CallsTyped' /\ Others(k) /\ call'[k].pc \in {"kick", "scan"}
        /\ call[k].pc = "scan"
    BY <1>1, <2>1, ScansIs DEF Scans, At
  <2> QED BY <1>1, <1>2, <2>1, <2>2, MutexKept, TypesAround DEF Scans, Typed
<1>10. CASE ScanEnds(k)
  <2>1. CallsTyped' /\ Others(k) /\ call'[k].pc = "done" /\ call[k].pc = "scan"
    BY <1>1, <1>10, ScanEndsIs DEF ScanEnds, At
  <2> QED BY <1>1, <1>2, <1>10, <2>1, MutexKept, TypesAround DEF ScanEnds, Typed
<1>11. CASE Kicks(k)
  <2>1. CallsTyped' /\ Others(k) /\ call'[k].pc = "done" /\ call[k].pc = "kick"
    BY <1>1, <1>11, KicksIs DEF Kicks, At
  <2>2. \A m \in Caller : mutex' = m <=> At(m, "ubus")'
    BY <1>1, <1>11, <2>1, MutexKept DEF Kicks
  <2>3. client' \in Ifname \cup {None} /\ stayed' \in [Caller -> BOOLEAN]
    BY <1>1, <1>11 DEF Kicks, Moved, TypeOK
  <2> QED BY <1>1, <1>11, <2>1, <2>2, <2>3 DEF Kicks, Typed, TypeOK
<1>12. CASE Returns(k)
  <2>1. CallsTyped' /\ Others(k) /\ call'[k].pc = "idle" /\ call[k].pc = "done"
    BY <1>1, <1>12, ReturnsIs DEF Returns, At
  <2>2. stayed' \in [Caller -> BOOLEAN]
    BY <1>1, <1>12 DEF Returns
  <2> QED BY <1>1, <1>2, <1>12, <2>1, <2>2, MutexKept, TypesAround DEF Returns, Typed
<1> QED BY <1>3, <1>4, <1>5, <1>6, <1>7, <1>8, <1>9, <1>10, <1>11, <1>12 DEF CallStep

\* Nothing around the requests touches them.
LEMMA AroundTyped ==
  ASSUME Typed, UNCHANGED <<mutex, call>>,
         kernel' \subseteq Ifname, netifd' \subseteq Ifname, ubus' \in BOOLEAN,
         client' \in Ifname \cup {None}, changes' \in 0..MaxChanges,
         cache' \in [valid : BOOLEAN, age : 0..TTL, status : Status],
         stayed' \in [Caller -> BOOLEAN]
  PROVE  Typed'
BY DEF Typed, TypeOK, CallsTyped, At

LEMMA StepTyped == Typed /\ [Next]_vars => Typed'
<1> SUFFICES ASSUME Typed, [Next]_vars  PROVE Typed'
  OBVIOUS
<1>1. /\ kernel \subseteq Ifname /\ netifd \subseteq Ifname /\ ubus \in BOOLEAN
      /\ client \in Ifname \cup {None} /\ changes \in 0..MaxChanges
      /\ cache \in [valid : BOOLEAN, age : 0..TTL, status : Status]
      /\ stayed \in [Caller -> BOOLEAN] /\ TypeOK
  BY DEF Typed, TypeOK
<1>2. Changes => changes' \in 0..MaxChanges
  BY <1>1, SourceAssumption DEF Changes
<1>3. ASSUME NEW k \in Caller, NEW kind \in Kind, NEW hint \in Ifname \cup {None},
             Begins(k, kind, hint)
      PROVE  Typed'
  <2>1. CallsTyped' /\ Others(k) /\ call'[k].pc = "dump" /\ call[k].pc = "idle"
    BY <1>3, BeginsIs DEF Begins, At
  <2>2. (kind # "look" /\ client # None /\ client \in kernel \cap netifd) \in BOOLEAN
    OBVIOUS
  <2>3. stayed' \in [Caller -> BOOLEAN]
    BY <1>1, <1>3, <2>2 DEF Begins
  <2> QED BY <1>1, <1>3, <2>1, <2>3, MutexKept, TypesAround DEF Begins, Typed, TypeOK
<1>4. ASSUME NEW k \in Caller, Fails(k)  PROVE Typed'
  <2>1. CallsTyped' /\ Others(k) /\ call'[k].pc = "idle" /\ call[k].pc = "dump"
    BY <1>4, ReturnsIs DEF Fails, At
  <2>2. stayed' \in [Caller -> BOOLEAN]
    BY <1>1, <1>4 DEF Fails
  <2> QED BY <1>1, <1>4, <2>1, <2>2, MutexKept, TypesAround DEF Fails, Typed, TypeOK
<1>5. ASSUME NEW i \in Ifname, KernelChanges(i)  PROVE Typed'
  <2>1. stayed' \in [Caller -> BOOLEAN]
    BY <1>1, <1>5 DEF KernelChanges, Moved
  <2>2. kernel' \subseteq Ifname /\ client' \in Ifname \cup {None}
    BY <1>1, <1>5 DEF KernelChanges
  <2> QED BY <1>1, <1>2, <1>5, <2>1, <2>2, AroundTyped DEF KernelChanges
<1>6. ASSUME NEW i \in Ifname, NetifdChanges(i)  PROVE Typed'
  <2>1. stayed' \in [Caller -> BOOLEAN]
    BY <1>1, <1>6 DEF NetifdChanges, Moved
  <2>2. netifd' \subseteq Ifname
    BY <1>1, <1>6 DEF NetifdChanges
  <2> QED BY <1>1, <1>2, <1>6, <2>1, <2>2, AroundTyped DEF NetifdChanges
<1>7. ASSUME NEW i \in Ifname \cup {None}, Roams(i)  PROVE Typed'
  <2>1. stayed' \in [Caller -> BOOLEAN] /\ client' \in Ifname \cup {None}
    BY <1>7 DEF Roams
  <2> QED BY <1>1, <1>2, <1>7, <2>1, AroundTyped DEF Roams
<1>8. CASE UbusChanges
  <2>1. ubus' \in BOOLEAN
    BY <1>8 DEF UbusChanges
  <2> QED BY <1>1, <1>2, <1>8, <2>1, AroundTyped DEF UbusChanges
<1>9. CASE Tick
  <2>1. cache' \in [valid : BOOLEAN, age : 0..TTL, status : Status]
    BY <1>1, <1>9, SourceAssumption DEF Tick
  <2> QED BY <1>1, <1>9, <2>1, AroundTyped DEF Tick, environment
<1>10. CASE UNCHANGED vars
  BY <1>10 DEF vars, environment, Typed, TypeOK, CallsTyped, At
<1>11. \A k \in Caller : \A kind \in Asks[k] : kind \in Kind
  BY SourceAssumption
<1>12. "kick" \in Kind /\ None \in Ifname \cup {None}
  BY DEF Kind
<1>13. ASSUME NEW k \in Caller,
              \/ \E kind \in Asks[k] : Begins(k, kind, None)
              \/ "kick" \in Asks[k] /\ \E hint \in Ifname : Begins(k, "kick", hint)
       PROVE  Typed'
  BY <1>3, <1>11, <1>12, <1>13
<1> QED
  BY <1>4, <1>5, <1>6, <1>7, <1>8, <1>9, <1>10, <1>13, CallTyped DEF Next

\* The types of the variables, the requests' too, hold; the mutex is held by
\* the one request that is in the ubus call (Source.ifaceStatus).
THEOREM TypesHold == Spec => []TypeOK
<1>1. Typed => TypeOK
  BY DEF Typed
<1> QED BY <1>1, InitTyped, StepTyped, PTL DEF Spec

-----------------------------------------------------------------------------
(* Where a request is with a client that stays.                            *)

\* The status of the radios names the client's interface, or says nothing.
Knows(s) == s.err \/ client \in s.names

\* What is remembered, and what an answer under way will have remembered.
Known ==
  /\ cache.valid => Knows(cache.status)
  /\ \A m \in Caller : At(m, "ubus") => Knows(call[m].status)

Asking == {"status", "ubus", "have"}

Searched(c) == c.found = client /\ c.listed = 1
Unsearched(c) == c.found = None /\ c.listed = 0

\* Until the client's interface is listed the request has it among those of the
\* dump, and one that has asked again finds it in every status.
Finds(k) ==
  LET c == call[k]
  IN  /\ client # None /\ client \in kernel \cap netifd /\ c.pc # "idle"
      /\ c.kind # "look"
      /\ c.pc \in Asking => client \in c.ifaces
      /\ c.pc \in Asking \cup {"dump"} => Unsearched(c)
      /\ c.pc = "dump" => ~c.refreshed
      /\ c.pc \in Asking /\ c.refreshed => Known
      /\ c.pc = "have" /\ c.refreshed => Knows(c.status)
      /\ c.pc = "scan" =>
           /\ client \in c.todo => Unsearched(c)
           /\ client \notin c.todo => Searched(c)
      /\ c.pc \in {"kick", "done"} => Searched(c)

FindInv == \A k \in Caller : stayed[k] => Finds(k)

\* Whoever looks on keeps its place.
LEMMA LooksOn ==
  ASSUME NEW k \in Caller, Finds(k), call'[k] = call[k], client' = client,
         client \in kernel' \cap netifd', Known => Known'
  PROVE  Finds(k)'
BY DEF Finds, Knows, Searched, Unsearched

\* Every status that arrives while the client stays knows its interface.
LEMMA StaysKnown ==
  ASSUME Typed, NEW k \in Caller, CallStep(k), client' = client,
         client \in netifd, Known
  PROVE  Known'
<1> USE DEF At
<1>1. /\ \A m \in Caller : call[m].pc = "ubus" => Knows(call[m].status)
      /\ cache.valid => Knows(cache.status)
  BY DEF Known
<1>2. ASSUME Others(k), call'[k].pc # "ubus", UNCHANGED cache
      PROVE  Known'
  BY <1>1, <1>2 DEF Others, Known, Knows
<1>3. CASE Dumps(k)
  BY <1>2, <1>3, DumpsIs DEF Dumps
<1>4. CASE StatusCached(k)
  BY <1>2, <1>4, StatusCachedIs DEF StatusCached
<1>5. CASE StatusAsks(k)
  <2>1. Others(k) /\ call'[k].status = Reported /\ UNCHANGED cache
    BY <1>5, StatusAsksIs DEF StatusAsks
  <2>2. Knows(Reported)
    BY DEF Knows, Reported, NoStatus
  <2> QED BY <1>1, <2>1, <2>2 DEF Others, Known, Knows
<1>6. CASE StatusAnswers(k)
  <2>1. /\ Others(k) /\ call'[k].pc = "have" /\ call[k].pc = "ubus"
        /\ cache'.status = call[k].status
    BY <1>6, StatusAnswersIs DEF StatusAnswers
  <2> QED BY <1>1, <2>1 DEF Others, Known, Knows
<1>7. CASE Invalidates(k)
  <2>1. Others(k) /\ call'[k].pc = "status"
    BY <1>7, InvalidatesIs
  <2>2. ~cache'.valid
    BY <1>7 DEF Invalidates, Invalidated, Typed, TypeOK
  <2> QED BY <1>1, <2>1, <2>2 DEF Others, Known, Knows
<1>8. CASE Lists(k)
  <2>1. Others(k) /\ UNCHANGED cache
    BY <1>8, ListsIs DEF Lists
  <2>2. call'[k].pc \in {"done", "scan"}
    BY <1>8, ListsIs
  <2> QED BY <1>2, <2>1, <2>2
<1>9. CASE \E i \in Ifname : Scans(k, i)
  BY <1>2, <1>9, ScansIs DEF Scans
<1>10. CASE ScanEnds(k)
  BY <1>2, <1>10, ScanEndsIs DEF ScanEnds
<1>11. CASE Kicks(k)
  BY <1>2, <1>11, KicksIs DEF Kicks
<1>12. CASE Returns(k)
  BY <1>2, <1>12, ReturnsIs DEF Returns
<1> QED BY <1>3, <1>4, <1>5, <1>6, <1>7, <1>8, <1>9, <1>10, <1>11, <1>12 DEF CallStep

\* A step of the request itself.
LEMMA GoesOn ==
  ASSUME Typed, NEW k \in Caller, CallStep(k), Finds(k), stayed'[k], stayed[k]
  PROVE  Finds(k)' /\ client' = client /\ UNCHANGED <<kernel, netifd>>
<1> USE DEF At
<1>1. /\ client # None /\ client \in kernel /\ client \in netifd
      /\ stayed \in [Caller -> BOOLEAN]
      /\ \A m \in Caller : mutex = m <=> call[m].pc = "ubus"
      /\ mutex \in Caller \cup {None} /\ None \notin Caller
  BY SourceAssumption DEF Finds, Typed, TypeOK
<1>2. CASE Kicks(k)
  <2>1. call[k].pc = "kick" /\ call'[k].pc = "done"
        /\ call'[k].kind = call[k].kind /\ call'[k].found = call[k].found
        /\ call'[k].listed = call[k].listed
    BY <1>2, KicksIs DEF Kicks
  <2>2. client' = client
    BY <1>1, <1>2 DEF Kicks, Moved
  <2> QED BY <1>1, <1>2, <2>1, <2>2
          DEF Kicks, Finds, Asking, Searched, Unsearched
<1>3. CASE Returns(k)
  BY <1>1, <1>3 DEF Returns
<1>4. ASSUME ~Kicks(k), ~Returns(k)
      PROVE  UNCHANGED environment
  BY <1>4 DEF CallStep, Dumps, StatusCached, StatusAsks, StatusAnswers, Invalidates,
              Lists, Scans, ScanEnds
<1>5. ASSUME UNCHANGED environment
      PROVE  /\ client' = client /\ UNCHANGED <<kernel, netifd>>
             /\ Known => Known'
  BY <1>1, <1>5, StaysKnown DEF environment
<1>6. CASE Dumps(k)
  <2>1. call[k].pc = "dump" /\ UNCHANGED environment
    BY <1>6 DEF Dumps
  <2>2. ~call[k].refreshed /\ Unsearched(call[k])
    BY <2>1 DEF Finds, Asking
  <2> QED BY <1>1, <1>5, <1>6, <2>1, <2>2, DumpsIs
          DEF Finds, Asking, Searched, Unsearched, Knows
<1>7. CASE StatusCached(k)
  <2>1. /\ call[k].pc = "status" /\ UNCHANGED environment /\ cache.valid
    BY <1>7 DEF StatusCached, Fresh
  <2>2. /\ client \in call[k].ifaces /\ Unsearched(call[k])
        /\ call[k].refreshed => Known
    BY <2>1 DEF Finds, Asking
  <2>3. call[k].refreshed => Knows(cache.status)
    BY <2>1, <2>2 DEF Known
  <2> QED BY <1>1, <1>5, <1>7, <2>1, <2>2, <2>3, StatusCachedIs
          DEF Finds, Asking, Searched, Unsearched, Knows
<1>8. CASE StatusAsks(k)
  <2>1. call[k].pc = "status" /\ UNCHANGED environment
    BY <1>8 DEF StatusAsks
  <2>2. /\ client \in call[k].ifaces /\ Unsearched(call[k])
        /\ call[k].refreshed => Known
    BY <2>1 DEF Finds, Asking
  <2> QED BY <1>1, <1>5, <1>8, <2>1, <2>2, StatusAsksIs
          DEF Finds, Asking, Searched, Unsearched, Knows
<1>9. CASE StatusAnswers(k)
  <2>1. call[k].pc = "ubus" /\ UNCHANGED environment
    BY <1>9 DEF StatusAnswers
  <2>2. /\ client \in call[k].ifaces /\ Unsearched(call[k])
        /\ call[k].refreshed => Known
    BY <2>1 DEF Finds, Asking
  <2>3. call[k].refreshed => Knows(call[k].status)
    BY <2>1, <2>2 DEF Known
  <2> QED BY <1>1, <1>5, <1>9, <2>1, <2>2, <2>3, StatusAnswersIs
          DEF Finds, Asking, Searched, Unsearched, Knows
<1>10. CASE Invalidates(k)
  <2>1. call[k].pc = "have" /\ UNCHANGED environment /\ mutex = None /\ UNCHANGED mutex
    BY <1>10 DEF Invalidates
  <2>2. client \in call[k].ifaces /\ Unsearched(call[k])
    BY <2>1 DEF Finds, Asking
  <2>3. Known'
    <3>1. ~cache'.valid
      BY <1>10 DEF Invalidates, Invalidated, Typed, TypeOK
    <3>2. \A m \in Caller : call'[m].pc # "ubus"
      BY <1>1, <1>10, <2>1, InvalidatesIs DEF Others
    <3> QED BY <3>1, <3>2 DEF Known
  <2> QED BY <1>1, <1>5, <1>10, <2>1, <2>2, <2>3, InvalidatesIs
          DEF Finds, Asking, Searched, Unsearched, Knows
<1>11. CASE Lists(k)
  <2>1. call[k].pc = "have" /\ UNCHANGED environment /\ ~Unknown(call[k])
    BY <1>11 DEF Lists
  <2>2. /\ client \in call[k].ifaces /\ Unsearched(call[k])
        /\ call[k].refreshed => Knows(call[k].status)
    BY <2>1 DEF Finds, Asking
  <2>3. client \in Listed(call[k])
    BY <2>1, <2>2 DEF Unknown, Knows, Listed
  <2> QED BY <1>1, <1>5, <1>11, <2>1, <2>2, <2>3, ListsIs
          DEF Finds, Asking, Searched, Unsearched
<1>12. CASE \E i \in Ifname : Scans(k, i)
  <2>1. PICK i \in Ifname : Scans(k, i)
    BY <1>12
  <2>2. /\ call[k].pc = "scan" /\ UNCHANGED environment /\ i \in call[k].todo
    BY <2>1 DEF Scans
  <2>3. /\ call'[k].pc \in {"kick", "scan"} /\ call'[k].kind = call[k].kind
        /\ call'[k].pc = "scan" => call'[k].todo = call[k].todo \ {i}
        /\ call'[k].pc = "kick" => client = i
        /\ client = i => call'[k].found = i /\ call'[k].listed = call[k].listed + 1
        /\ client # i => /\ call'[k].found = call[k].found
                         /\ call'[k].listed = call[k].listed
    <3>1. /\ call'[k].kind = call[k].kind
          /\ client = i => call'[k].found = i /\ call'[k].listed = call[k].listed + 1
          /\ client # i => /\ call'[k].found = call[k].found
                           /\ call'[k].listed = call[k].listed
      <4>1. client = i /\ i \in kernel <=> client = i
        BY <1>1
      <4>2. /\ call'[k].kind = call[k].kind
            /\ call'[k].found = IF client = i THEN i ELSE call[k].found
            /\ call'[k].listed = IF client = i THEN call[k].listed + 1
                                              ELSE call[k].listed
        BY <2>1, <4>1, ScansIs
      <4> QED BY <4>2
    <3>2. CASE client = i /\ call[k].kind = "kick"
      <4>1. call'[k].pc = "kick"
        BY <1>1, <2>1, <3>2, ScansIs
      <4> QED BY <3>1, <3>2, <4>1
    <3>3. CASE ~(client = i /\ call[k].kind = "kick")
      <4>1. call'[k].pc = "scan" /\ call'[k].todo = call[k].todo \ {i}
        BY <2>1, <3>3, ScansIs
      <4> QED BY <3>1, <4>1
    <3> QED BY <3>2, <3>3
  <2>4. /\ client \in call[k].todo => Unsearched(call[k])
        /\ client \notin call[k].todo => Searched(call[k])
    BY <2>2 DEF Finds
  <2>5. IF call'[k].pc = "scan"
        THEN /\ client \in call'[k].todo => Unsearched(call'[k])
             /\ client \notin call'[k].todo => Searched(call'[k])
        ELSE Searched(call'[k])
    BY <2>2, <2>3, <2>4 DEF Searched, Unsearched
  <2> QED BY <1>1, <1>5, <2>2, <2>3, <2>5 DEF Finds, Asking, Searched, Unsearched
<1>13. CASE ScanEnds(k)
  <2>1. call[k].pc = "scan" /\ call[k].todo = {} /\ UNCHANGED environment
    BY <1>13 DEF ScanEnds
  <2>2. Searched(call[k])
    BY <2>1 DEF Finds
  <2> QED BY <1>1, <1>5, <1>13, <2>1, <2>2, ScanEndsIs
          DEF Finds, Asking, Searched, Unsearched
<1> QED BY <1>2, <1>3, <1>6, <1>7, <1>8, <1>9, <1>10, <1>11, <1>12, <1>13 DEF CallStep

\* What a step of another leaves of a client that stays.
LEMMA OthersGoOn ==
  ASSUME Typed, NEW k \in Caller, NEW m \in Caller, m # k, CallStep(m), Finds(k),
         stayed[k], stayed'[k]
  PROVE  Finds(k)'
<1>1. /\ client # None /\ client \in kernel /\ client \in netifd
      /\ stayed \in [Caller -> BOOLEAN]
  BY DEF Finds, Typed, TypeOK
<1>2. call'[k] = call[k]
  <2>1. Others(m)
    <3>1. CASE Dumps(m) \/ StatusCached(m) \/ StatusAsks(m)
      BY <3>1, DumpsIs, StatusCachedIs, StatusAsksIs
    <3>2. CASE StatusAnswers(m) \/ Invalidates(m)
      BY <3>2, StatusAnswersIs, InvalidatesIs
    <3>3. CASE Lists(m)
      BY <3>3, ListsIs
    <3>4. CASE \E i \in Ifname : Scans(m, i)
      BY <3>4, ScansIs
    <3>5. CASE ScanEnds(m) \/ Kicks(m) \/ Returns(m)
      BY <3>5, ScanEndsIs, KicksIs, ReturnsIs
    <3> QED BY <3>1, <3>2, <3>3, <3>4, <3>5 DEF CallStep
  <2> QED BY <2>1 DEF Others
<1>3. client' = client /\ UNCHANGED <<kernel, netifd>>
  <2>1. CASE Kicks(m)
    BY <1>1, <2>1 DEF Kicks, Moved
  <2>2. CASE ~Kicks(m)
    BY <2>2 DEF CallStep, Dumps, StatusCached, StatusAsks, StatusAnswers, Invalidates,
                Lists, Scans, ScanEnds, Returns, environment
  <2> QED BY <2>1, <2>2
<1> QED BY <1>1, <1>2, <1>3, StaysKnown, LooksOn

LEMMA FindStep == Typed /\ FindInv /\ [Next]_vars => FindInv'
<1> SUFFICES ASSUME Typed, FindInv, [Next]_vars, NEW k \in Caller, stayed'[k]
             PROVE  Finds(k)'
  BY DEF FindInv
<1>1. stayed \in [Caller -> BOOLEAN] /\ (stayed[k] => Finds(k))
  BY DEF Typed, TypeOK, FindInv
<1>2. ASSUME UNCHANGED <<cache, call>>, stayed[k], client' = client,
             client \in kernel' \cap netifd'
      PROVE  Finds(k)'
  BY <1>1, <1>2, LooksOn DEF Known, Knows, At
<1>3. ASSUME NEW m \in Caller, NEW kind \in Kind, NEW hint \in Ifname \cup {None},
             Begins(m, kind, hint)
      PROVE  Finds(k)'
  <2>1. /\ UNCHANGED environment /\ UNCHANGED cache /\ Others(m)
        /\ call'[m].pc = "dump" /\ call'[m].kind = kind /\ ~call'[m].refreshed /\ Unsearched(call'[m])
    BY <1>3, BeginsIs DEF Begins, Unsearched
  <2>2. CASE m = k
    <3>1. client # None /\ client \in kernel \cap netifd /\ kind # "look"
      BY <1>1, <1>3, <2>2 DEF Begins
    <3> QED BY <2>1, <2>2, <3>1
            DEF Finds, Asking, Searched, Unsearched, environment
  <2>3. CASE m # k
    <3>1. stayed[k] /\ call'[k] = call[k]
      BY <1>1, <1>3, <2>1, <2>3 DEF Begins, Others
    <3>2. Known => Known'
      BY <2>1 DEF Known, Knows, At, Others, environment
    <3>3. client' = client /\ client \in kernel' \cap netifd'
      BY <1>1, <2>1, <3>1 DEF Finds, environment
    <3> QED BY <1>1, <3>1, <3>2, <3>3, LooksOn
  <2> QED BY <2>2, <2>3
<1>4. ASSUME NEW m \in Caller, CallStep(m)
      PROVE  Finds(k)'
  <2>1. stayed[k]
    BY <1>1, <1>4 DEF CallStep, Dumps, StatusCached, StatusAsks, StatusAnswers,
                      Invalidates, Lists, Scans, ScanEnds, Kicks, Moved, Returns
  <2> QED BY <1>1, <1>4, <2>1, GoesOn, OthersGoOn
<1>5. ASSUME NEW m \in Caller, Fails(m)
      PROVE  Finds(k)'
  <2>1. /\ UNCHANGED environment /\ UNCHANGED cache /\ Others(m) /\ call'[m].pc = "idle"
    BY <1>5, ReturnsIs DEF Fails
  <2>2. m # k /\ stayed[k]
    BY <1>1, <1>5 DEF Fails
  <2>3. Known => Known'
    BY <2>1 DEF Known, Knows, At, Others, environment
  <2>4. call'[k] = call[k] /\ client' = client /\ client \in kernel' \cap netifd'
    BY <1>1, <2>1, <2>2 DEF Finds, environment, Others
  <2> QED BY <1>1, <2>2, <2>3, <2>4, LooksOn
<1>6. ASSUME NEW i \in Ifname, KernelChanges(i)
      PROVE  Finds(k)'
  <2>1. stayed[k] /\ client # i
    BY <1>1, <1>6 DEF KernelChanges, Moved
  <2>2. client \in kernel \cap netifd
    BY <1>1, <2>1 DEF Finds
  <2>3. client \in kernel' /\ client' = client /\ client \in netifd'
    BY <1>6, <2>1, <2>2 DEF KernelChanges
  <2> QED BY <1>2, <1>6, <2>1, <2>3 DEF KernelChanges
<1>7. ASSUME NEW i \in Ifname, NetifdChanges(i)
      PROVE  Finds(k)'
  <2>1. stayed[k] /\ client # i
    BY <1>1, <1>7 DEF NetifdChanges, Moved
  <2>2. client \in kernel \cap netifd
    BY <1>1, <2>1 DEF Finds
  <2>3. client \in kernel' /\ client' = client /\ client \in netifd'
    BY <1>7, <2>1, <2>2 DEF NetifdChanges
  <2> QED BY <1>2, <1>7, <2>1, <2>3 DEF NetifdChanges
<1>8. ASSUME NEW i \in Ifname \cup {None}, Roams(i)
      PROVE  Finds(k)'
  BY <1>8 DEF Roams
<1>9. CASE UbusChanges
  BY <1>1, <1>2, <1>9 DEF UbusChanges, Finds
<1>10. CASE Tick
  <2>1. stayed[k] /\ UNCHANGED <<call, client, kernel, netifd>>
    BY <1>1, <1>10 DEF Tick, environment
  <2>2. cache'.valid = cache.valid /\ cache'.status = cache.status
    BY <1>10 DEF Tick, Typed, TypeOK
  <2>3. Known => Known'
    BY <2>1, <2>2 DEF Known, Knows, At
  <2>4. client' = client /\ client \in kernel' \cap netifd' /\ call'[k] = call[k]
    BY <1>1, <2>1 DEF Finds
  <2> QED BY <1>1, <2>1, <2>3, <2>4, LooksOn
<1>11. CASE UNCHANGED vars
  BY <1>1, <1>2, <1>11 DEF vars, environment, Finds
<1>12. \A m \in Caller : \A kind \in Asks[m] : kind \in Kind
  BY SourceAssumption
<1>13. "kick" \in Kind /\ None \in Ifname \cup {None}
  BY DEF Kind
<1>14. ASSUME NEW m \in Caller,
              \/ \E kind \in Asks[m] : Begins(m, kind, None)
              \/ "kick" \in Asks[m] /\ \E hint \in Ifname : Begins(m, "kick", hint)
       PROVE  Finds(k)'
  BY <1>3, <1>12, <1>13, <1>14
<1> QED
  BY <1>4, <1>5, <1>6, <1>7, <1>8, <1>9, <1>10, <1>11, <1>14 DEF Next

\* A client that stays on an interface that the kernel and netifd both have,
\* from the beginning of a request to its end, is found there, once: whatever
\* the other requests make of the cached status, and whether or not ubus answers.
THEOREM WhoStaysIsFound == Spec => []FindsWhoStays
<1>1. Init => FindInv
  BY DEF Init, FindInv
<1>2. FindInv => FindsWhoStays
  BY DEF FindInv, FindsWhoStays, Finds, At, Searched
<1> QED BY <1>1, <1>2, InitTyped, StepTyped, FindStep, PTL DEF Spec
=============================================================================
