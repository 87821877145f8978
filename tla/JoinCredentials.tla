--------------------------- MODULE JoinCredentials ---------------------------
(***************************************************************************)
(* How an access point gets and keeps its credentials.  Two processes edit *)
(* /etc/config/perch-apd: the daemon, which reads it once when it starts   *)
(* and joins with the token it then has (internal/agent: Run, Join), and   *)
(* `perch-apd install` or `join`, run by a person (internal/install:       *)
(* configureAndJoin).  Each edit reads the file, changes options and puts  *)
(* a new file in its place (internal/config: Update); nothing locks the    *)
(* two against each other.                                                 *)
(*                                                                         *)
(* The controllers are external.  A join token is redeemed once; a join    *)
(* gives the access point new credentials, and the ones it had stop        *)
(* working (PROTOCOL.md, "rejoined").  A wait between two attempts is a    *)
(* stutter here; AgentSession has the waits.                               *)
(***************************************************************************)
EXTENDS UciFile, FiniteSets

CONSTANTS
  Ctl,                 \* the controllers
  Token,               \* the join tokens
  Issuer,              \* the controller that made each token
  Broken,              \* a controller option that is no URL
  Missing,             \* there is no config file
  Name,                \* the names of sections and options
  Initial,             \* the config files to start from
  MaxCalls,            \* bound on the calls of install and join
  MaxCrashes           \* bound on the daemon's deaths, and on reboots

VARIABLES
  file,                \* /etc/config/perch-apd
  daemon, cli,         \* the two processes
  service,             \* procd keeps the daemon running
  valid,               \* per controller, the credentials in force (0: none)
  unspent,             \* the tokens not redeemed yet
  issued,              \* credentials made so far
  calls, crashes,
  edited,              \* history: the file was edited by hand or by the
                       \* command since the daemon read it
  causes               \* history: what went wrong outside the code's reach

vars == <<file, daemon, cli, service, valid, unspent, issued, calls, crashes,
          edited, causes>>
controllers == <<valid, unspent, issued>>
counters == <<calls, crashes>>

ASSUME CredentialsAssumption ==
  /\ Issuer \in [Token -> Ctl] /\ Broken \notin Ctl
  /\ {"", "main", "controller", "join_token", "agent_id", "agent_secret"}
       \subseteq Name
  /\ IsFiniteSet(Token) /\ MaxCalls \in Nat /\ MaxCrashes \in Nat

\* The first credentials, and one more for each token.
MaxJoins == 1 + Cardinality(Token)
Cred == [ctl : Ctl, n : 1..MaxJoins]
Value == Ctl \cup Token \cup Cred \cup {Empty, Broken}
Line == [kind : {"section", "option", "other"}, key : Name, value : Value]
Cfg == [ctl : Ctl \cup {Empty, Broken}, token : Token \cup {Empty},
        id : Cred \cup {Empty}, secret : Cred \cup {Empty}]

\* What can go wrong beyond what the code can make good.
Cause == {"lost", "forgotten", "bad_token", "overlap"}

-----------------------------------------------------------------------------
(* The file. *)

Main == "main"

\* What the package ships: every option there, and empty.
DefaultFile ==
  <<Other, Header(Main), Other, Option("controller", Empty), Other,
    Option("join_token", Empty), Other, Option("agent_id", Empty),
    Option("agent_secret", Empty), Other>>

\* config.Load.
Load(f) ==
  LET of(key) == IF f = Missing THEN Empty ELSE Get(f, Main, key)
  IN  [ctl |-> of("controller"), token |-> of("join_token"),
       id |-> of("agent_id"), secret |-> of("agent_secret")]

HasCredentials(cfg) == cfg.id # Empty /\ cfg.secret # Empty

\* The empty value is no controller, token or credential, and no file is none.
ASSUME ValuesAssumption ==
  /\ Empty \notin Ctl \cup Token \cup Cred
  /\ Missing \notin Seq(Line)

\* The file of an access point that has not joined, with a token where it names
\* a controller, or of one that has: with the first credentials, of the
\* controller beside them.
ASSUME InitialAssumption ==
  \A f \in Initial :
    LET cfg == Load(f)
    IN  /\ f = Missing \/ f \in Seq(Line)
        /\ cfg \in Cfg /\ cfg.id = cfg.secret
        /\ HasCredentials(cfg) => cfg.id = [ctl |-> cfg.ctl, n |-> 1]
        /\ cfg.ctl \in Ctl /\ ~HasCredentials(cfg) =>
             cfg.token \in Token /\ Issuer[cfg.token] = cfg.ctl

\* config.Update: sets the options in "values", in the order of their names;
\* one of "drop" that is there stays, empty.
Put(f, values, drop, k) ==
  CASE k \in DOMAIN values -> Set(f, Main, k, values[k])
    [] k \in drop \ DOMAIN values /\ HasOption(f, Main, k) -> Set(f, Main, k, Empty)
    [] OTHER -> f

Update(f, values, drop) ==
  LET f0 == EnsureSection(IF f = Missing THEN DefaultFile ELSE f, Main)
      f1 == Put(f0, values, drop, "agent_id")
      f2 == Put(f1, values, drop, "agent_secret")
      f3 == Put(f2, values, drop, "controller")
  IN  Put(f3, values, drop, "join_token")

\* A variant with a defect, for the properties to catch.
WantsKeepsOld(cfg, c, t) ==
  [k \in {"controller"} \cup (IF t = Empty THEN {} ELSE {"join_token"}) |->
     IF k = "controller" THEN c ELSE t]

\* What SaveCredentials makes of the file.
Saved(f, cred) ==
  Update(f, [k \in {"agent_id", "agent_secret"} |-> cred], {"join_token"})

\* What install and join write: the controller, the token if there is one, and
\* then, or when the controller is another, no credentials.
Wants(cfg, c, t) ==
  LET changed == cfg.ctl # Empty /\ cfg.ctl # c
      keys == {"controller"} \cup (IF t = Empty THEN {} ELSE {"join_token"})
              \cup (IF changed \/ t # Empty THEN {"agent_id", "agent_secret"}
                    ELSE {})
  IN  [k \in keys |-> CASE k = "controller" -> c
                        [] k = "join_token" -> t
                        [] OTHER -> Empty]

-----------------------------------------------------------------------------
(* The controllers. *)

Redeemable(cfg) == cfg.token \in unspent /\ Issuer[cfg.token] = cfg.ctl

Usable(cfg) ==
  /\ HasCredentials(cfg) /\ cfg.id = cfg.secret
  /\ cfg.id.ctl = cfg.ctl /\ valid[cfg.ctl] = cfg.id.n

\* A join of controller c with token t that the controller takes.
Accepts(c, t) ==
  /\ t \in unspent /\ Issuer[t] = c
  /\ issued' = issued + 1
  /\ valid' = [valid EXCEPT ![c] = issued + 1]
  /\ unspent' = unspent \ {t}

NewCred(c) == [ctl |-> c, n |-> issued + 1]

\* A write over a file that is no longer the one it was made from, or the
\* daemon's over one that is no longer the one it goes by.
Overlaps(copy, stale) ==
  causes' = IF copy # file \/ stale THEN causes \cup {"overlap"} ELSE causes

Loses(p) == IF p.got # Empty THEN causes \cup {"lost"} ELSE causes

-----------------------------------------------------------------------------
(* The daemon. *)

NoCfg == [ctl |-> Empty, token |-> Empty, id |-> Empty, secret |-> Empty]
Down == [pc |-> "down", cfg |-> NoCfg, got |-> Empty, copy |-> Missing]

\* procd starts it when there is a controller; it stays up only with one that
\* is a URL.
Start ==
  /\ daemon.pc = "down" /\ service
  /\ Load(file).ctl \in Ctl
  /\ daemon' = [Down EXCEPT !.pc = "run", !.cfg = Load(file)]
  /\ edited' = FALSE
  /\ UNCHANGED <<file, cli, service, controllers, counters, causes>>

JoinAccepted ==
  /\ daemon.pc = "run" /\ ~HasCredentials(daemon.cfg)
  /\ Accepts(daemon.cfg.ctl, daemon.cfg.token)
  /\ daemon' = [daemon EXCEPT !.pc = "save", !.got = NewCred(daemon.cfg.ctl)]
  /\ UNCHANGED <<file, cli, service, counters, edited, causes>>

\* The reply does not come, or comes without credentials: it tries again.
JoinReplyLost ==
  /\ daemon.pc = "run" /\ ~HasCredentials(daemon.cfg)
  /\ Accepts(daemon.cfg.ctl, daemon.cfg.token)
  /\ causes' = causes \cup {"lost"}
  /\ UNCHANGED <<file, daemon, cli, service, counters, edited>>

\* SaveCredentials reads the file ...
SaveReads ==
  /\ daemon.pc = "save"
  /\ daemon' = [daemon EXCEPT !.pc = "write", !.copy = file]
  /\ UNCHANGED <<file, cli, service, controllers, counters, edited, causes>>

\* A variant with a defect.
JoinedInFileOnly(d) == [d EXCEPT !.pc = "run", !.got = Empty, !.copy = Missing]

\* Run goes on with what the join gave it, saved or not.
Joined(d) ==
  [d EXCEPT !.pc = "run", !.got = Empty, !.copy = Missing,
     !.cfg = [ctl |-> d.cfg.ctl, token |-> Empty, id |-> d.got,
              secret |-> d.got]]

\* ... and puts its copy, with the credentials, in its place ...
SaveWrites ==
  /\ daemon.pc = "write"
  /\ Overlaps(daemon.copy, edited)
  /\ daemon' = Joined(daemon)
  /\ UNCHANGED <<cli, service, controllers, counters, edited>>
  /\ file' = Saved(daemon.copy, daemon.got)

\* ... or cannot.
SaveFails ==
  /\ daemon.pc = "write"
  /\ daemon' = Joined(daemon)
  /\ causes' = causes \cup {"lost"}
  /\ UNCHANGED <<file, cli, service, controllers, counters, edited>>

Dial ==
  /\ daemon.pc = "run" /\ Usable(daemon.cfg)
  /\ daemon' = [daemon EXCEPT !.pc = "session"]
  /\ UNCHANGED <<file, cli, service, controllers, counters, edited, causes>>

\* Status 401, or close code 4001 on the session it had: with a join token it
\* drops the credentials it holds, and not those in the file.
Rejected ==
  /\ daemon.pc \in {"run", "session"}
  /\ HasCredentials(daemon.cfg) /\ ~Usable(daemon.cfg)
  /\ daemon.pc = "session" \/ daemon.cfg.token # Empty
  /\ daemon' = [daemon EXCEPT
       !.pc = "run",
       !.cfg = IF daemon.cfg.token # Empty
               THEN [daemon.cfg EXCEPT !.id = Empty, !.secret = Empty]
               ELSE daemon.cfg]
  /\ UNCHANGED <<file, cli, service, controllers, counters, edited, causes>>

SessionEnds ==
  /\ daemon.pc = "session"
  /\ daemon' = [daemon EXCEPT !.pc = "run"]
  /\ UNCHANGED <<file, cli, service, controllers, counters, edited, causes>>

Crash ==
  /\ daemon.pc # "down"
  /\ crashes < MaxCrashes /\ crashes' = crashes + 1
  /\ daemon' = Down
  /\ causes' = Loses(daemon)
  /\ UNCHANGED <<file, cli, service, controllers, calls, edited>>

-----------------------------------------------------------------------------
(* perch-apd install, perch-apd join. *)

NoCall == [pc |-> "none", ctl |-> Empty, token |-> Empty, got |-> Empty,
           copy |-> Missing, values |-> << >>]

\* The person gives a controller or takes the configured one, and a token or
\* none; without credentials to keep there has to be one.
Call(c, t) ==
  LET f == IF file = Missing THEN DefaultFile ELSE file
      \* A configuration that does not load counts as none.
      cfg == IF Load(f).ctl = Broken THEN NoCfg ELSE Load(f)
      ctl == IF c = Empty THEN cfg.ctl ELSE c
  IN  /\ cli.pc = "none" /\ calls < MaxCalls /\ calls' = calls + 1
      /\ file' = f
      /\ ctl # Empty
      /\ t # Empty
           \/ (HasCredentials(cfg) /\ ~(cfg.ctl # Empty /\ cfg.ctl # ctl))
      /\ cli' = [NoCall EXCEPT !.pc = "update", !.ctl = ctl, !.token = t,
                               !.copy = f, !.values = Wants(cfg, ctl, t)]
      /\ causes' = IF t # Empty /\ ~(t \in unspent /\ Issuer[t] = ctl)
                   THEN causes \cup {"bad_token"} ELSE causes
      /\ UNCHANGED <<daemon, service, controllers, crashes, edited>>

\* Without a controller, or without a token it needs, it ends with an error,
\* and has only made the file.
CallGivesUp ==
  /\ cli.pc = "none" /\ file = Missing
  /\ file' = DefaultFile
  /\ UNCHANGED <<daemon, cli, service, controllers, counters, edited, causes>>

UpdateReads ==
  /\ cli.pc = "update"
  /\ cli' = [cli EXCEPT !.pc = "updated", !.copy = file]
  /\ Overlaps(cli.copy, FALSE)
  /\ UNCHANGED <<file, daemon, service, controllers, counters, edited>>

UpdateWrites ==
  /\ cli.pc = "updated"
  /\ Overlaps(cli.copy, FALSE)
  /\ cli' = [cli EXCEPT !.pc = IF cli.token # Empty THEN "join" ELSE "stop",
                        !.copy = Missing]
  /\ edited' = TRUE
  /\ UNCHANGED <<daemon, service, controllers, counters>>
  /\ file' = Update(cli.copy, cli.values, {})

CallJoinAccepted ==
  /\ cli.pc = "join"
  /\ Accepts(cli.ctl, cli.token)
  /\ cli' = [cli EXCEPT !.pc = "save", !.got = NewCred(cli.ctl)]
  /\ UNCHANGED <<file, daemon, service, counters, edited, causes>>

\* A refusal ends the command; the daemon goes on as it was.
CallJoinRefused ==
  /\ cli.pc = "join"
  /\ ~(cli.token \in unspent /\ Issuer[cli.token] = cli.ctl)
  /\ cli' = NoCall
  /\ UNCHANGED <<file, daemon, service, controllers, counters, edited, causes>>

\* The controller cannot be reached: the daemon will try.
CallJoinUnreachable ==
  /\ cli.pc = "join"
  /\ cli' = [cli EXCEPT !.pc = "stop"]
  /\ UNCHANGED <<file, daemon, service, controllers, counters, edited, causes>>

CallJoinReplyLost ==
  /\ cli.pc = "join"
  /\ Accepts(cli.ctl, cli.token)
  /\ cli' = [cli EXCEPT !.pc = "stop"]
  /\ causes' = causes \cup {"lost"}
  /\ UNCHANGED <<file, daemon, service, counters, edited>>

CallSaveReads ==
  /\ cli.pc = "save"
  /\ cli' = [cli EXCEPT !.pc = "saved", !.copy = file]
  /\ UNCHANGED <<file, daemon, service, controllers, counters, edited, causes>>

CallSaveWrites ==
  /\ cli.pc = "saved"
  /\ Overlaps(cli.copy, FALSE)
  /\ cli' = [cli EXCEPT !.pc = "stop", !.got = Empty, !.copy = Missing]
  /\ edited' = TRUE
  /\ UNCHANGED <<daemon, service, controllers, counters>>
  /\ file' = Saved(cli.copy, cli.got)

\* restartService: stop, whatever the daemon was at, then start.
ServiceStops ==
  /\ cli.pc = "stop"
  /\ cli' = [cli EXCEPT !.pc = "start"]
  /\ service' = FALSE
  /\ daemon' = Down /\ causes' = Loses(daemon)
  /\ UNCHANGED <<file, controllers, counters, edited>>

ServiceStarts ==
  /\ cli.pc = "start"
  /\ cli' = NoCall
  /\ service' = TRUE
  /\ UNCHANGED <<file, daemon, controllers, counters, edited, causes>>

\* The command is interrupted, a write of it fails, or it was told not to
\* start the service: what is done stays done.
CallEnds ==
  /\ cli.pc # "none"
  /\ cli' = NoCall
  /\ causes' = Loses(cli)
  /\ UNCHANGED <<file, daemon, service, controllers, counters, edited>>

-----------------------------------------------------------------------------
(* Around them. *)

\* The person forgets the agent in the dashboard.
Forget(c) ==
  /\ valid[c] # 0
  /\ valid' = [valid EXCEPT ![c] = 0]
  /\ causes' = causes \cup {"forgotten"}
  /\ UNCHANGED <<file, daemon, cli, service, unspent, issued, counters, edited>>

\* Power off and on: the service is enabled, and starts.
Reboot ==
  /\ crashes < MaxCrashes /\ crashes' = crashes + 1
  /\ daemon' = Down /\ cli' = NoCall
  /\ service' = TRUE
  /\ causes' = Loses(daemon) \cup Loses(cli)
  /\ UNCHANGED <<file, controllers, calls, edited>>

\* A new access point, or one that has joined: with the first credentials made.
Init ==
  /\ file \in Initial
  /\ daemon = Down /\ cli = NoCall /\ service = TRUE
  /\ issued = 1
  /\ valid = [c \in Ctl |-> IF HasCredentials(Load(file)) /\ c = Load(file).ctl
                            THEN 1 ELSE 0]
  /\ unspent = Token
  /\ calls = 0 /\ crashes = 0
  /\ edited = FALSE /\ causes = {}

DaemonStep ==
  \/ Start \/ JoinAccepted \/ SaveReads \/ SaveFails \/ SaveWrites
  \/ Dial \/ Rejected

CallStep ==
  \/ CallEnds \/ UpdateReads \/ UpdateWrites \/ CallJoinAccepted \/ CallJoinRefused
  \/ CallJoinUnreachable \/ CallSaveReads \/ CallSaveWrites
  \/ ServiceStops \/ ServiceStarts

Next ==
  \/ DaemonStep \/ JoinReplyLost \/ SessionEnds \/ Crash
  \/ \E c \in Ctl \cup {Empty}, t \in Token \cup {Empty} : Call(c, t)
  \/ CallGivesUp \/ CallStep \/ CallJoinReplyLost
  \/ \E c \in Ctl : Forget(c)
  \/ Reboot

Spec == Init /\ [][Next]_vars

\* The daemon and the command are scheduled, and a controller that is asked
\* again and again (every 30 s, or every 5 minutes) answers in the end.
Fairness == WF_vars(DaemonStep) /\ WF_vars(CallStep)

FairSpec == Spec /\ Fairness

-----------------------------------------------------------------------------
(* Properties. *)

TypeOK ==
  /\ file = Missing \/ file \in Seq(Line)
  /\ Load(file) \in Cfg
  /\ daemon.pc \in {"down", "run", "save", "write", "session"}
  /\ daemon.cfg \in Cfg /\ daemon.got \in Cred \cup {Empty}
  /\ daemon.got # Empty <=> daemon.pc \in {"save", "write"}
  /\ cli.pc \in {"none", "update", "updated", "join", "save", "saved", "stop",
                 "start"}
  /\ cli.ctl \in Ctl \cup {Empty} /\ cli.token \in Token \cup {Empty}
  /\ cli.got # Empty <=> cli.pc \in {"save", "saved"}
  /\ service \in BOOLEAN /\ edited \in BOOLEAN /\ causes \subseteq Cause
  /\ valid \in [Ctl -> 0..issued] /\ unspent \subseteq Token
  /\ issued \in 0..MaxJoins /\ calls \in 0..MaxCalls
  /\ crashes \in 0..MaxCrashes

\* The credentials of one controller never stand beside the address of another,
\* in the file or in the daemon, whichever process died where: the daemon would
\* send a controller the secret another one gave it.
SecretStaysHome ==
  "overlap" \notin causes =>
    \A cfg \in {daemon.cfg, Load(file)} :
      HasCredentials(cfg) => cfg.id.ctl = cfg.ctl

\* An access point whose file names a controller can always come back after a
\* restart, with credentials or with a token the controller still takes, unless
\* a join's answer never reached the file, the agent was forgotten, the person
\* gave a token that was no good, or two processes edited the file at once.
ComesBack ==
  /\ Load(file).ctl \in Ctl
  /\ daemon.got = Empty /\ cli.got = Empty
  /\ ~Usable(Load(file)) /\ ~Redeemable(Load(file))
  => causes # {}

\* So it does come back: it has a session again and again, unless one of those
\* happened, the command was broken off between its edit and the restart, or
\* the service is stopped.
KeepsConnecting ==
  \/ []<>(daemon.pc = "session")
  \/ <>(causes # {})
  \/ <>[](edited \/ ~service \/ Load(file).ctl \notin Ctl)
=============================================================================
