----------------------------- MODULE Automations -----------------------------
(***************************************************************************)
(* Automations: prompts that run on a schedule with nobody watching         *)
(* (orchestrator-go/internal/repository/automations.go,                     *)
(* automation_schedule.go, service/automations/).  A claim reads the due    *)
(* automation, moves its schedule on and queues its run in one              *)
(* transaction; meanwhile users edit, disable and delete automations and    *)
(* the conversations their runs go to, and the clock jumps while the        *)
(* process is down.  Time is counted in minutes; Day minutes make a day.    *)
(***************************************************************************)
EXTENDS Integers, FiniteSets, FiniteSetsExt

CONSTANTS
  Automation, Tools,
  Schedules,   \* [kind |-> "interval" or "daily", n |-> minutes]
  Day,         \* minutesPerDay
  MaxFires,    \* maxFiresPerTick
  MaxTime,     \* the last minute of a behaviour
  MaxEdits     \* what the users do in a behaviour

VARIABLES
  clock,
  auto,        \* automations: [exists, schedule, enabled, due, tools]
  session,     \* the conversation of its runs
  last,        \* status of the run last_run_id names
  grant,       \* automation_runs.allowed_tools_json of that run
  budget,      \* fires left in this tick, 0 between ticks
  remote,      \* the configured default provider is a remote one
  routable,    \* ValidateRouting finds a worker
  edits,
  live,        \* ghost: runs queued and not ended
  used,        \* ghost: tools the last run was let use
  firedWith,   \* ghost: the allowlist at its firing
  armedAt,     \* ghost: when the schedule was computed afresh
  seenAt       \* ghost: when the schedule was last moved on

ghosts == <<live, used, firedWith, armedAt, seenAt>>
runs == <<session, last, grant, live, used, firedWith>>
env == <<clock, remote, routable>>
vars == <<clock, auto, session, last, grant, budget, remote, routable, edits, ghosts>>

NoDue == 0
Unreadable == [kind |-> "unreadable", n |-> 0]
NoAutomation == [exists |-> FALSE, schedule |-> Unreadable, enabled |-> FALSE, due |-> NoDue, tools |-> {}]

Init ==
  /\ clock = 1 /\ remote \in BOOLEAN /\ routable = TRUE
  /\ \E a \in Automation, due \in {NoDue, 1} :
       auto = [b \in Automation |->
                 IF b = a THEN [NoAutomation EXCEPT !.exists = TRUE, !.enabled = due # NoDue, !.due = due] ELSE NoAutomation]
  /\ session = [a \in Automation |-> "none"]
  /\ last = [a \in Automation |-> "none"] /\ grant = [a \in Automation |-> {}]
  /\ budget = 0 /\ edits = 0
  /\ live = [a \in Automation |-> 0] /\ used = [a \in Automation |-> {}] /\ firedWith = [a \in Automation |-> {}]
  /\ armedAt = [a \in Automation |-> 0] /\ seenAt = [a \in Automation |-> 0]

(***************************************************************************)
(* Schedules                                                                *)
(***************************************************************************)
NextDailyAfter(from, minute) ==
  LET today == (from \div Day) * Day + minute IN IF today > from THEN today ELSE today + Day

FirstDueAfter(s, from) == IF s.kind = "interval" THEN from + s.n ELSE NextDailyAfter(from, s.n)

NextDueAfterFiring(s, due, now) ==
  LET next == due + s.n
  IN  IF s.kind = "daily" THEN NextDailyAfter(now, s.n)
      ELSE IF next > now THEN next
      ELSE next + ((now - next) \div s.n + 1) * s.n

(***************************************************************************)
(* What users do                                                            *)
(***************************************************************************)
Edit == edits < MaxEdits /\ edits' = edits + 1

Arm(a) == armedAt' = [armedAt EXCEPT ![a] = clock] /\ seenAt' = [seenAt EXCEPT ![a] = clock]

CreateAutomation(a, s, enabled, tools) ==
  /\ Edit /\ ~auto[a].exists /\ session[a] = "none"
  /\ auto' = [auto EXCEPT ![a] = [exists |-> TRUE, schedule |-> s, enabled |-> enabled, tools |-> tools,
                                  due |-> IF enabled THEN FirstDueAfter(s, clock) ELSE NoDue]]
  /\ Arm(a)
  /\ UNCHANGED <<env, runs, budget>>

Recomputes(a, s) == auto[a].enabled /\ (auto[a].schedule # s \/ auto[a].due = NoDue)

UpdateAutomation(a, s, tools) ==
  /\ Edit /\ auto[a].exists
  /\ IF Recomputes(a, s)
     THEN auto' = [auto EXCEPT ![a].schedule = s, ![a].tools = tools, ![a].due = FirstDueAfter(s, clock)] /\ Arm(a)
     ELSE auto' = [auto EXCEPT ![a].schedule = s, ![a].tools = tools] /\ UNCHANGED <<armedAt, seenAt>>
  /\ UNCHANGED <<env, runs, budget>>

Stays(a, enabled) == IF enabled THEN auto[a].due ELSE NoDue

SetAutomationEnabled(a, enabled) ==
  /\ Edit /\ auto[a].exists
  /\ enabled => auto[a].schedule # Unreadable
  /\ IF enabled /\ ~auto[a].enabled
     THEN auto' = [auto EXCEPT ![a].enabled = TRUE, ![a].due = FirstDueAfter(auto[a].schedule, clock)] /\ Arm(a)
     ELSE /\ auto' = [auto EXCEPT ![a].enabled = enabled, ![a].due = Stays(a, enabled)]
          /\ UNCHANGED <<armedAt, seenAt>>
  /\ UNCHANGED <<env, runs, budget>>

DeleteAutomation(a) ==
  /\ Edit /\ auto[a].exists
  /\ auto' = [auto EXCEPT ![a] = NoAutomation]
  /\ UNCHANGED <<env, runs, budget, armedAt, seenAt>>

(* The conversation is routed to an external agent, or is deleted with its   *)
(* runs.                                                                     *)
RouteSession(a, how) ==
  /\ Edit /\ session[a] \in {"active", "routed", "misrouted"}
  /\ session' = [session EXCEPT ![a] = how]
  /\ IF how = "deleted" THEN last' = [last EXCEPT ![a] = "none"] /\ live' = [live EXCEPT ![a] = 0]
                        ELSE UNCHANGED <<last, live>>
  /\ UNCHANGED <<env, auto, grant, budget, used, firedWith, armedAt, seenAt>>

(***************************************************************************)
(* Scheduler.Tick                                                           *)
(***************************************************************************)
TickBegins ==
  /\ budget = 0
  /\ \E a \in Automation : auto[a].enabled /\ auto[a].due <= clock
  /\ budget' = MaxFires
  /\ UNCHANGED <<env, auto, session, last, grant, edits, ghosts>>

Due == {a \in Automation : auto[a].enabled /\ auto[a].due <= clock}

FirstDue(a) == a \in Due /\ \A b \in Due : auto[a].due <= auto[b].due

(* The schedule moves on. *)
Passes(a) ==
  /\ auto' = [auto EXCEPT ![a].due = NextDueAfterFiring(auto[a].schedule, @, clock)]
  /\ seenAt' = [seenAt EXCEPT ![a] = clock]

(* Fault: only a run that waits for a worker is unfinished. *)
FaultyUnfinished(a) == last[a] = "queued"

Unfinished(a) == last[a] \in {"queued", "running"}

Provider(a) ==
  IF session[a] = "misrouted" THEN "invalid"
  ELSE IF session[a] = "routed" \/ remote THEN "openai_compatible"
  ELSE "ollama"

Skipped(a) ==
  /\ Unfinished(a) \/ Provider(a) # "ollama" \/ ~routable
  /\ Passes(a)
  /\ UNCHANGED <<runs, armedAt>>

Disabled(a) ==
  /\ auto[a].schedule = Unreadable
  /\ auto' = [auto EXCEPT ![a].enabled = FALSE, ![a].due = NoDue]
  /\ UNCHANGED <<runs, armedAt, seenAt>>

Fires(a) ==
  /\ ~Unfinished(a) /\ Provider(a) = "ollama" /\ routable
  /\ auto' = [auto EXCEPT ![a].due = NextDueAfterFiring(auto[a].schedule, @, clock)]
  /\ seenAt' = [seenAt EXCEPT ![a] = clock]
  /\ session' = [session EXCEPT ![a] = IF @ \in {"none", "deleted"} THEN "active" ELSE @]
  /\ last' = [last EXCEPT ![a] = "queued"] /\ live' = [live EXCEPT ![a] = @ + 1]
  /\ grant' = [grant EXCEPT ![a] = auto[a].tools] /\ firedWith' = [firedWith EXCEPT ![a] = auto[a].tools]
  /\ used' = [used EXCEPT ![a] = {}]
  /\ UNCHANGED armedAt

ClaimDueAutomation ==
  /\ budget > 0
  /\ \/ /\ Due = {} /\ budget' = 0
        /\ UNCHANGED <<auto, runs, armedAt, seenAt>>
     \/ /\ budget' = budget - 1
        /\ \E a \in Automation : FirstDue(a) /\ IF auto[a].schedule = Unreadable THEN Disabled(a) ELSE Skipped(a) \/ Fires(a)
  /\ UNCHANGED <<env, edits>>

(***************************************************************************)
(* The run, the workers and the clock                                       *)
(***************************************************************************)
Grant(a) == grant[a]

(* A worker takes the run; a tool that needs approval is granted from the    *)
(* frozen allowlist or ends the run, and a grant that cannot be prepared or  *)
(* recorded ends it too.                                                     *)
RunStarts(a) == last[a] = "queued" /\ last' = [last EXCEPT ![a] = "running"] /\ UNCHANGED <<used, live>>

RunEnds(a) == last[a] = "running" /\ last' = [last EXCEPT ![a] = "ended"] /\ live' = [live EXCEPT ![a] = @ - 1] /\ UNCHANGED used

ToolBefore(a, t) ==
  /\ last[a] = "running" /\ t \in Grant(a)
  /\ used' = [used EXCEPT ![a] = @ \cup {t}]
  /\ UNCHANGED <<last, live>>

RunStep ==
  /\ \E a \in Automation : RunStarts(a) \/ RunEnds(a) \/ \E t \in Tools : ToolBefore(a, t)
  /\ UNCHANGED <<env, auto, session, grant, budget, edits, firedWith, armedAt, seenAt>>

TimePasses ==
  /\ clock < MaxTime
  /\ \E t \in {clock + 1, clock + 3} : clock' = IF t > MaxTime THEN MaxTime ELSE t
  /\ UNCHANGED <<auto, runs, budget, remote, routable, edits, armedAt, seenAt>>

WorkersChange == Edit /\ routable' = ~routable /\ UNCHANGED <<clock, remote, auto, runs, budget, armedAt, seenAt>>

UserEdits ==
  \E a \in Automation :
    \/ \E s \in Schedules, tools \in SUBSET Tools :
         UpdateAutomation(a, s, tools) \/ \E enabled \in BOOLEAN : CreateAutomation(a, s, enabled, tools)
    \/ \E enabled \in BOOLEAN : SetAutomationEnabled(a, enabled)
    \/ DeleteAutomation(a)
    \/ \E how \in {"routed", "misrouted", "deleted"} : RouteSession(a, how)

Next == UserEdits \/ TickBegins \/ ClaimDueAutomation \/ RunStep \/ TimePasses \/ WorkersChange
Spec == Init /\ [][Next]_vars

(* The scheduler ticks for as long as the process runs. *)
Fairness == WF_vars(TickBegins) /\ WF_vars(ClaimDueAutomation)

-----------------------------------------------------------------------------
(* The shape of the state: an automation is armed while it is enabled. *)
TypeOK ==
  /\ \A a \in Automation : auto[a].enabled <=> auto[a].due # NoDue
  /\ \A a \in Automation : last[a] \in {"none", "queued", "running", "ended"}
  /\ budget \in 0 .. MaxFires

Occurs(s, from, t) ==
  IF s.kind = "interval" THEN (t - from) % s.n = 0 ELSE t % Day = s.n

(* The time an automation waits for is always the first occurrence of its    *)
(* present schedule after the schedule was last computed or moved on: no     *)
(* occurrence twice, none in a burst after a pause, no drift of an interval  *)
(* from the moment it was armed, and nothing left over from an old schedule. *)
NextOccurrence ==
  \A a \in Automation : auto[a].enabled /\ auto[a].schedule # Unreadable =>
    /\ auto[a].due > seenAt[a] /\ Occurs(auto[a].schedule, armedAt[a], auto[a].due)
    /\ \A t \in seenAt[a] + 1 .. auto[a].due - 1 : ~Occurs(auto[a].schedule, armedAt[a], t)

(* Runs of one automation never overlap. *)
OneAtATime == \A a \in Automation : live[a] <= 1

(* An edit of the allowlist changes later runs only: what a run in flight is *)
(* let use was allowed when it was fired.                                    *)
GrantedAtFiring == \A a \in Automation : used[a] \subseteq firedWith[a]

(* Nothing is sent to a remote model unattended, whether it is the default   *)
(* or the conversation was routed there since the last run.                  *)
NothingSentUnattended ==
  [][\A a \in Automation : live'[a] > live[a] => ~remote /\ session'[a] = "active"]_vars

(* Every due occurrence is dealt with, although a run of another automation  *)
(* never ends, workers are missing or its provider may not be used.          *)
NothingDue == \A a \in Automation : auto[a].enabled => auto[a].due > clock
OccurrenceHandled == []<>NothingDue
=============================================================================
