---------------------------- MODULE Installation ----------------------------
(***************************************************************************)
(* An installed agent's files, and who writes them: configure (what both   *)
(* install and the MSI run), set_password, and the running agent, which    *)
(* enrolls with the token that waits in agent.toml and then forgets it.    *)
(* agent/src/setup.rs, machine.rs, enroll.rs and unattended.rs's start.    *)
(*                                                                         *)
(* The three are processes of their own, and nothing locks the file: each  *)
(* writes agent.partial and renames it.  Machine and processes may stop    *)
(* anywhere.                                                               *)
(*                                                                         *)
(* At the end: the log file the agent keeps there.                         *)
(***************************************************************************)
EXTENDS Integers, Sequences, FiniteSets

CONSTANTS
    TokenBound,    \* bound: enrollment tokens handed out
    AdminBound,    \* bound: times an administrator runs a command
    OutageBound,   \* bound: times an answer is lost or the server is out of reach
    CrashBound     \* bound: times the machine stops

ASSUME InstallationAssumption ==
    TokenBound \in Nat /\ AdminBound \in Nat /\ OutageBound \in Nat /\ CrashBound \in Nat

Writers == {"install", "password", "agent"}
NoToken == 0

VARIABLES
    toml,       \* agent.toml: a configuration, torn, or not there
    partial,    \* agent.partial
    doing,      \* where each process is
    config,     \* the configuration each holds
    pending,    \* the token the agent read when it started
    serverSays, \* what the server answers to each token
    used,       \* enrollments the server counted, per token
    answered,   \* tokens whose answer came back
    tokens,     \* history: tokens handed out so far
    runs,       \* history: commands an administrator ran so far
    outages,    \* history: answers lost
    crashes,    \* history: times the machine stopped
    overlapped  \* history: someone saved, or the agent started, while another
                \* was between reading the file and saving it

instVars == <<toml, partial, doing, config, pending, serverSays, used, answered,
              tokens, runs, outages, crashes, overlapped>>
history == <<tokens, runs, outages, crashes>>
enrolling == <<pending, serverSays, used, answered>>

Tokens == 1..TokenBound
Configs == [managed : BOOLEAN, access : BOOLEAN, withGrant : BOOLEAN,
            token : 0..TokenBound]
NoConfig == [managed |-> FALSE, access |-> FALSE, withGrant |-> FALSE, token |-> NoToken]

(* A file is not there, torn (half written), or holds a configuration. *)
NoFile == [is |-> "none", holds |-> NoConfig]
Torn == [is |-> "torn", holds |-> NoConfig]
Holding(c) == [is |-> "whole", holds |-> c]

(* What unattended::run asks of a configuration before it starts: that it  *)
(* lets someone in.                                                        *)
LetsIn(c) ==
    /\ c.access \/ c.managed
    /\ c.withGrant => c.access /\ c.managed

---------------------------------------------------------------------------
(* Config::load and Config::save, by process w. *)

Whole(file) == file.is = "whole"
At(w, from, to) == doing[w] = from /\ doing' = [doing EXCEPT ![w] = to]

(* Holding what it read of the file, or about to save it. *)
Middle(w) == doing[w] \notin {"off", "serving"}

OthersBusy(w) == \E v \in Writers \ {w} : Middle(v)

(* A mutant: the file is written in place. *)
SaveWrites_InPlace(w) ==
    /\ \/ /\ At(w, "save", "written") /\ toml' = Torn
       \/ /\ At(w, "written", "rename") /\ toml' = Holding(config[w])
    /\ UNCHANGED <<partial, config, overlapped, enrolling, history>>

(* std::fs::write: the partial file is truncated, then whole. *)
SaveWrites(w) ==
    /\ \/ At(w, "save", "written") /\ partial' = Torn
       \/ At(w, "written", "rename") /\ partial' = Holding(config[w])
    /\ overlapped' = (overlapped \/ OthersBusy(w))
    /\ UNCHANGED <<toml, config, enrolling, history>>

AfterSave(w) ==
    CASE w = "install" /\ config[w].token # NoToken -> "now"
      [] w = "agent" -> "serving"
      [] OTHER -> "off"

(* std::fs::rename: of whatever the partial file is by now.  Without it,   *)
(* an error.                                                               *)
SaveRenames(w) ==
    /\ At(w, "rename", IF partial = NoFile THEN IF w = "agent" THEN "serving" ELSE "off"
                       ELSE AfterSave(w))
    /\ toml' = IF partial = NoFile THEN toml ELSE partial
    /\ partial' = NoFile
    /\ overlapped' = (overlapped \/ OthersBusy(w))
    /\ config' = [config EXCEPT ![w] = IF AfterSave(w) = "now" /\ partial # NoFile THEN @ ELSE NoConfig]
    /\ UNCHANGED <<enrolling, history>>

---------------------------------------------------------------------------
(* configure *)

(* Its choices and early returns: --password-with-grant needs both, and    *)
(* without a token there is a password.                                    *)
Configure ==
    /\ At("install", "off", "save")
    /\ runs < AdminBound /\ runs' = runs + 1
    /\ \E token \in {NoToken} \cup ({tokens + 1} \cap Tokens),
          access \in BOOLEAN, both \in BOOLEAN :
         /\ token = NoToken => access
         /\ both => access /\ token # NoToken
         /\ config' = [config EXCEPT !["install"] =
                         [managed |-> token # NoToken, access |-> access, withGrant |-> both,
                          token |-> token]]
         /\ tokens' = IF token = NoToken THEN tokens ELSE token
    /\ UNCHANGED <<toml, partial, overlapped, enrolling, outages, crashes>>

(* enroll: the server counts the token's use and answers; the answer may   *)
(* not come back in time (NOW_TIMEOUT, or the connection is lost).         *)
Asked(token) ==
    /\ \E says \in {"yes", "no"} :
         /\ serverSays[token] \in {"unknown", says}
         /\ serverSays' = [serverSays EXCEPT ![token] = says]
         /\ used' = [used EXCEPT ![token] = IF says = "yes" THEN @ + 1 ELSE @]

(* enroll::now, and what configure does with its outcome. *)
EnrollNow ==
    LET token == config["install"].token IN
    /\ doing["install"] = "now"
    /\ \/ /\ Asked(token) /\ answered' = answered \cup {token}
          /\ config' = [config EXCEPT !["install"].token = NoToken]
          /\ doing' = [doing EXCEPT !["install"] = "save"]
          /\ UNCHANGED outages
       \/ /\ outages < OutageBound /\ outages' = outages + 1
          /\ Asked(token) \/ UNCHANGED <<serverSays, used>>
          /\ doing' = [doing EXCEPT !["install"] = "off"]
          /\ config' = [config EXCEPT !["install"] = NoConfig]
          /\ UNCHANGED answered
    /\ UNCHANGED <<toml, partial, pending, overlapped, tokens, runs, crashes>>

---------------------------------------------------------------------------
(* set_password: --none and --with-grant need a managed machine. *)

LoadForPassword ==
    /\ At("password", "off", "chosen") /\ Whole(toml)
    /\ runs < AdminBound /\ runs' = runs + 1
    /\ config' = [config EXCEPT !["password"] = toml.holds]
    /\ UNCHANGED <<toml, partial, overlapped, enrolling, tokens, outages, crashes>>

(* A mutant: --none where there are no grants. *)
SetPassword_NoneAnyway ==
    /\ At("password", "chosen", "save")
    /\ LET old == config["password"] IN
       \E none \in BOOLEAN, both \in {old.withGrant, TRUE, FALSE} :
         /\ both => old.managed \/ ~none
         /\ config' = [config EXCEPT !["password"] =
                         [old EXCEPT !.access = ~none,
                                     !.withGrant = ~none /\ both /\ old.managed]]
    /\ UNCHANGED <<toml, partial, overlapped, enrolling, history>>

SetPassword ==
    /\ At("password", "chosen", "save")
    /\ LET old == config["password"] IN
       \E none \in BOOLEAN, both \in {old.withGrant, TRUE, FALSE} :
         /\ none => old.managed
         /\ both /\ both # old.withGrant => old.managed
         /\ config' = [config EXCEPT !["password"] =
                         [old EXCEPT !.access = ~none,
                                     !.withGrant = ~none /\ both]]
    /\ UNCHANGED <<toml, partial, overlapped, enrolling, history>>

(* The two passwords typed differ, or the process is interrupted. *)
SetPasswordFails ==
    /\ At("password", "chosen", "off")
    /\ config' = [config EXCEPT !["password"] = NoConfig]
    /\ UNCHANGED <<toml, partial, overlapped, enrolling, history>>

---------------------------------------------------------------------------
(* The agent. *)

(* A mutant: enrolling is left to the installer. *)
AgentStarts_NeverEnrolls ==
    /\ doing["agent"] = "off" /\ Whole(toml)
    /\ LetsIn(toml.holds)
    /\ doing' = [doing EXCEPT !["agent"] = "serving"]
    /\ overlapped' = (overlapped \/ Middle("install"))
    /\ UNCHANGED <<toml, partial, config, enrolling, history>>

(* run: the configuration is read, and its token remembered. *)
AgentStarts ==
    /\ doing["agent"] = "off" /\ Whole(toml)
    /\ LetsIn(toml.holds)
    /\ pending' = toml.holds.token
    /\ doing' = [doing EXCEPT !["agent"] = IF toml.holds.token = NoToken THEN "serving" ELSE "ask"]
    /\ overlapped' = (overlapped \/ Middle("install"))
    /\ UNCHANGED <<toml, partial, config, serverSays, used, answered, history>>

(* A mutant: the token is forgotten whether or not the server answered. *)
WhenPossible_Once ==
    /\ doing["agent"] = "ask"
    /\ Asked(pending) \/ UNCHANGED <<serverSays, used>>
    /\ doing' = [doing EXCEPT !["agent"] = "forget"]
    /\ UNCHANGED <<answered, outages, toml, partial, config, pending, overlapped, tokens, runs,
                   crashes>>

(* when_possible: until the server answers. *)
WhenPossible ==
    /\ doing["agent"] = "ask"
    /\ \/ /\ Asked(pending) /\ answered' = answered \cup {pending}
          /\ doing' = [doing EXCEPT !["agent"] = "forget"]
          /\ UNCHANGED outages
       \/ /\ outages < OutageBound /\ outages' = outages + 1
          /\ Asked(pending)
          /\ UNCHANGED <<answered, doing>>
    /\ UNCHANGED <<toml, partial, config, pending, overlapped, tokens, runs, crashes>>

(* A mutant: the configuration is saved as it was. *)
ForgetToken_Kept ==
    /\ doing["agent"] = "forget"
    /\ IF Whole(toml)
       THEN /\ config' = [config EXCEPT !["agent"] = toml.holds]
            /\ doing' = [doing EXCEPT !["agent"] = "save"]
       ELSE /\ doing' = [doing EXCEPT !["agent"] = "serving"] /\ UNCHANGED config
    /\ UNCHANGED <<toml, partial, overlapped, enrolling, history>>

(* forget_token: whatever the file holds by now, without its token. *)
ForgetToken ==
    /\ doing["agent"] = "forget"
    /\ IF Whole(toml)
       THEN /\ config' = [config EXCEPT !["agent"] = [toml.holds EXCEPT !.token = NoToken]]
            /\ doing' = [doing EXCEPT !["agent"] = "save"]
       ELSE /\ doing' = [doing EXCEPT !["agent"] = "serving"] /\ UNCHANGED config
    /\ UNCHANGED <<toml, partial, overlapped, enrolling, history>>

(* The service stops it: install and set_password restart it, and Windows  *)
(* moves it with the console.                                              *)
AgentStops ==
    /\ doing["agent"] = "serving"
    /\ doing' = [doing EXCEPT !["agent"] = "off"]
    /\ UNCHANGED <<toml, partial, config, overlapped, enrolling, history>>

(* uninstall --purge, once the service and so the agent has stopped. *)
Uninstall ==
    /\ doing["agent"] = "off" /\ toml # NoFile
    /\ runs < AdminBound /\ runs' = runs + 1
    /\ toml' = NoFile /\ partial' = NoFile
    /\ overlapped' = (overlapped \/ OthersBusy("agent"))
    /\ UNCHANGED <<doing, config, enrolling, tokens, outages, crashes>>

(* The machine stops, or the service ended the agent at a bad moment. *)
Crash ==
    /\ crashes < CrashBound /\ crashes' = crashes + 1
    /\ \E gone \in {Writers, {"agent"}} :
         /\ doing' = [w \in Writers |-> IF w \in gone THEN "off" ELSE doing[w]]
         /\ config' = [w \in Writers |-> IF w \in gone THEN NoConfig ELSE config[w]]
    /\ UNCHANGED <<toml, partial, overlapped, enrolling, tokens, runs, outages>>

InstInit ==
    /\ toml = NoFile /\ partial = NoFile
    /\ doing = [w \in Writers |-> "off"] /\ config = [w \in Writers |-> NoConfig]
    /\ pending = NoToken /\ serverSays = [t \in Tokens |-> "unknown"]
    /\ used = [t \in Tokens |-> 0] /\ answered = {}
    /\ tokens = 0 /\ runs = 0 /\ outages = 0 /\ crashes = 0 /\ overlapped = FALSE

AgentStep ==
    \/ AgentStarts \/ WhenPossible \/ ForgetToken \/ SaveWrites("agent") \/ SaveRenames("agent")

InstNext ==
    \/ \E w \in Writers : SaveWrites(w) \/ SaveRenames(w)
    \/ Configure \/ EnrollNow \/ LoadForPassword \/ SetPassword \/ SetPasswordFails
    \/ AgentStarts \/ WhenPossible \/ ForgetToken \/ AgentStops
    \/ Uninstall \/ Crash

(* A started agent goes on; outages and crashes are bounded: in the end    *)
(* the server can be reached.                                              *)
InstFairness == WF_instVars(AgentStep)

InstSpec == InstInit /\ [][InstNext]_instVars /\ InstFairness

---------------------------------------------------------------------------
(* Every variable keeps its type. *)
InstTypeOK ==
    /\ {toml.holds, partial.holds} \subseteq Configs
    /\ config \in [Writers -> Configs] /\ pending \in 0..TokenBound
    /\ doing \in [Writers -> {"off", "save", "written", "rename", "now", "chosen", "ask",
                              "forget", "serving"}]

(* Whoever saved last, and whatever anyone else was doing: a configuration *)
(* on disk lets someone in, so the agent it starts does.                   *)
SomeoneGetsIn == Whole(toml) => LetsIn(toml.holds)

(* A machine that stops while the file is saved finds it whole; only two   *)
(* processes saving at once share the partial file.                        *)
WholeUnlessOverlapped == toml = Torn => overlapped

(* What save's comment says. *)
WholeOrNotAtAll == toml # Torn

(* A token waits in the file until the server has answered for it, or an   *)
(* administrator replaces it, unless an installation overlaps the agent.   *)
TokenWaits ==
    [][ /\ Whole(toml) /\ Whole(toml')
        /\ toml.holds.token # NoToken /\ toml'.holds.token # toml.holds.token
        /\ ~overlapped' /\ doing["install"] # "rename"
        => toml.holds.token \in answered ]_instVars

(* The server counts a token once for each time it was really presented:   *)
(* once more only for an answer that was lost, or a crash before it was    *)
(* forgotten.                                                              *)
UsedOnce == \A t \in Tokens : used[t] > 1 => overlapped \/ used[t] <= 1 + outages + crashes

(* A token that waits is used up in the end, once the server can be        *)
(* reached, and leaves the file.                                           *)
TokenDue == Whole(toml) /\ toml.holds.token # NoToken /\ doing["agent"] = "off"
TokenDone == ~Whole(toml) \/ toml.holds.token = NoToken \/ overlapped
TokenGoes == TokenDue ~> TokenDone

---------------------------------------------------------------------------
(* The agent's log file, kept to a size (agent/src/logfile.rs, opened by   *)
(* main.rs): past its limit it becomes <name>.1 and another begins. The    *)
(* file system may refuse a rename or an open, and the agent is stopped    *)
(* and started at will. An event is [id, len]; a file is the events in it, *)
(* and its length as the file system keeps it.                             *)

CONSTANTS
    LogLimit,     \* LOG_LIMIT
    EventLens,    \* the sizes of events, none beyond LogLimit
    EventMost,    \* bound: events
    RefuseMost,   \* bound: refusals of the file system
    StartMost     \* bound: starts of the agent

ASSUME LogAssumption == LogLimit \in Nat /\ EventLens \subseteq 1..LogLimit

VARIABLES
    logNow,      \* the file, a sequence of events
    logSize,     \* its length, as its metadata says
    logBefore,   \* <name>.1
    open,        \* Rotating::file is there
    written,     \* Rotating::written
    starts,      \* the agent's starts
    refusals,    \* of the file system
    events,      \* events so far
    logged,      \* history: the events that were written, in order
    stuck        \* history: renames and sizes refused since the last rename done

logVars == <<logNow, logSize, logBefore, open, written, starts, refusals, events, logged, stuck>>

LogInit ==
    /\ logNow = <<>> /\ logSize = 0 /\ logBefore = <<>> /\ open = TRUE /\ written = 0
    /\ starts = 1 /\ refusals = 0 /\ events = 0 /\ logged = <<>> /\ stuck = 0

(* With what opening finds already there not counted. *)
LogOpens_FromZero(known) ==
    /\ starts < StartMost
    /\ starts' = starts + 1
    /\ open' = TRUE
    /\ known /\ written' = 0
    /\ UNCHANGED <<logNow, logSize, logBefore, refusals, events, logged, stuck>>

(* Rotating::open when the agent starts: appended to, and what is there
   counts towards the limit, where its length can be told. *)
LogOpens(known) ==
    /\ starts < StartMost
    /\ starts' = starts + 1
    /\ open' = TRUE
    /\ written' = (IF known THEN logSize ELSE 0)
    /\ refusals' = (IF known THEN refusals ELSE refusals + 1) /\ refusals' <= RefuseMost
    /\ stuck' = (IF known THEN stuck ELSE stuck + 1)
    /\ UNCHANGED <<logNow, logSize, logBefore, events, logged>>

(* Started over where the rename was refused, instead of appended to. *)
TurnOver_StartsOver(renamed) ==
    IF renamed THEN [cur |-> <<>>, size |-> 0, prev |-> logNow, stuck |-> 0]
    ELSE [cur |-> <<>>, size |-> 0, prev |-> logBefore, stuck |-> stuck + 1]

(* Rotating::turn_over: the file moves aside, or goes on where it is. *)
TurnOver(renamed) ==
    IF renamed THEN [cur |-> <<>>, size |-> 0, prev |-> logNow, stuck |-> 0]
    ELSE [cur |-> logNow, size |-> logSize, prev |-> logBefore, stuck |-> stuck + 1]

(* Rotating::write of one event: turned over first when it would pass the
   limit, opened again when it is not open, and refused when it cannot be. *)
LogWrites(len, renamed, opened) ==
    LET full == written > 0 /\ written + len > LogLimit
        turned == IF full THEN TurnOver(renamed)
                  ELSE [cur |-> logNow, size |-> logSize, prev |-> logBefore, stuck |-> stuck]
        event == [id |-> events + 1, len |-> len]
        asked == full \/ ~open
    IN  /\ events < EventMost
        /\ ~full => renamed
        /\ ~asked => opened
        /\ refusals' = refusals + (IF renamed THEN 0 ELSE 1) + (IF opened THEN 0 ELSE 1)
        /\ refusals' <= RefuseMost
        /\ events' = events + 1
        /\ open' = opened
        /\ logNow' = (IF opened THEN Append(turned.cur, event) ELSE turned.cur)
        /\ logSize' = turned.size + (IF opened THEN len ELSE 0)
        /\ logBefore' = turned.prev
        /\ stuck' = turned.stuck
        /\ written' = (IF full THEN 0 ELSE written) + (IF opened THEN len ELSE 0)
        /\ logged' = (IF opened THEN Append(logged, event) ELSE logged)
        /\ UNCHANGED starts

LogNext ==
    \/ \E known \in BOOLEAN : LogOpens(known)
    \/ \E l \in EventLens, r, o \in BOOLEAN : LogWrites(l, r, o)

LogSpec == LogInit /\ [][LogNext]_logVars

(* What the file's own count says is never more than what is in it. *)
LogTypeOK == written \in 0..logSize /\ stuck \in 0..refusals

(* `s` ends with `t`. *)
EndsWith(s, t) ==
    /\ Len(t) <= Len(s)
    /\ \A i \in 1..Len(t) : t[i] = s[Len(s) - Len(t) + i]

(* The two files, one after the other, are the last of what was written and
   nothing but that: no event in front of another, none missing between two,
   none twice, whatever renames and opens were refused and wherever the agent
   was stopped; and as long as a file was never turned over twice, they are
   all of it (agent/src/logfile.rs turn_over, write). *)
NothingLostBetween ==
    LET both == logBefore \o logNow
    IN  /\ EndsWith(logged, both)
        /\ logBefore = <<>> => both = logged

(* Months of starts and stops do not make the file grow: it is within its
   limit once for each rename or length refused since the last rename that was
   done, and once more (agent/src/logfile.rs open, write). *)
SizeBounded == logSize <= (stuck + 1) * LogLimit
=============================================================================
