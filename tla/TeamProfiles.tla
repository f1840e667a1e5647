---------------------------- MODULE TeamProfiles ----------------------------
(***************************************************************************)
(* The specialists of the team: AGENT.md files that people edit at any     *)
(* time, the user's grant of one revision of a file, the roster that is    *)
(* frozen into a run, and the tools that a delegated task gets             *)
(* (teamfiles, repository/team.go, service/team).                          *)
(*                                                                         *)
(* One specialist.  A pattern is the set of tools it matches, a revision   *)
(* (a hash) is the declaration it is the hash of.  An admission reads the  *)
(* file, the settings and the catalogue in that order, one read a step.    *)
(***************************************************************************)
EXTENDS Naturals, FiniteSets

CONSTANTS
  Tools,     \* tools the catalogue may hold
  Kind,      \* "plain", "team", "memory_read", "memory_propose" or "remote"
  Texts,     \* what an editor may save in the folder: see load
  MaxEdits   \* bound: changes of the file, the settings and the catalogue

VARIABLES
  file,      \* the profile's folder: an element of Texts, or Absent
  granted,   \* agent_profile_settings.granted_revision, or None
  enabled,   \* agent_profile_settings.enabled
  catalog,   \* state of each tool: on, disabled, server_off, off_route, gone
  served,    \* a team-protocol worker serves a model the specialist can use
  shown,     \* the revision on the user's screen, or None
  accepted,  \* the revisions the user has pressed Grant for
  roster,    \* the revision the run was offered, or None
  call,      \* an admission of team.delegate
  task,      \* the task it created, or None
  edits

vars == <<file, granted, enabled, catalog, served, shown, accepted, roster, call, task, edits>>

Absent == [folder |-> "absent"]
None == [none |-> TRUE]

-----------------------------------------------------------------------------
(* The file.                                                               *)

Broken == [error |-> TRUE]

\* A text that parses; no memory key means none.
parse(f) ==
  [error |-> FALSE, tools |-> f.tools, requires |-> f.requires,
   memory |-> IF f.memory = "" THEN "none" ELSE f.memory, instructions |-> f.instructions]

\* Scan and load: a folder that is a symlink or badly named, and a text that
\* does not parse, are listed with an error.
load(f) == IF f.folder = "ok" /\ f.parses THEN parse(f) ELSE Broken

\* The declaration, and not the instructions.
revision(p) == [tools |-> p.tools, requires |-> p.requires, memory |-> p.memory]

-----------------------------------------------------------------------------
(* The resolver.                                                           *)

memoryAllows(level, t) ==
  \/ Kind[t] = "memory_read" /\ level \in {"read", "propose"}
  \/ Kind[t] = "memory_propose" /\ level = "propose"

exclusionReason(t, level, onRoute) ==
  CASE Kind[t] = "team" -> "nested"
    [] catalog[t] = "disabled" -> "policy"
    [] catalog[t] = "server_off" -> "server"
    [] Kind[t] \in {"memory_read", "memory_propose"} /\ ~memoryAllows(level, t) -> "memory"
    [] Kind[t] = "remote" -> "consent"
    [] ~onRoute -> "route"
    [] OTHER -> ""

Listed(p) == {t \in p.tools : catalog[t] # "gone"}

OnRoute(t) == catalog[t] # "off_route"

Reason(p, t) == exclusionReason(t, p.memory, ~served \/ OnRoute(t))

\* Tools it gets, tools it may ask the user for, and tools that would be one of
\* the two if a worker served it.
Resolved(p) == {t \in Listed(p) : served /\ Reason(p, t) = ""}
Consent(p) == {t \in Listed(p) : served /\ Reason(p, t) = "consent" /\ OnRoute(t)}
Waiting(p) == {t \in Listed(p) : ~served /\ Reason(p, t) \in {"", "consent"}}

\* requirementReason is empty.
requirementMet(p, need) == need \cap (Resolved(p) \cup Consent(p) \cup Waiting(p)) # {}

State(p, on, rev) ==
  CASE p = Broken -> "parse_error"
    [] ~on -> "disabled"
    [] rev # revision(p) -> "needs_grant"
    [] ~served \/ \E need \in p.requires : ~requirementMet(p, need) -> "unavailable"
    [] OTHER -> "active"

-----------------------------------------------------------------------------

Idle == [pc |-> "idle"]

Init ==
  /\ file \in Texts \cup {Absent}
  /\ granted = None /\ enabled = FALSE
  /\ catalog = [t \in Tools |-> "on"] /\ served = TRUE
  /\ shown = None /\ accepted = {} /\ roster = None
  /\ call = Idle /\ task = None /\ edits = 0

Edit == edits < MaxEdits /\ edits' = edits + 1

EditFile(f) ==
  /\ Edit /\ f # file /\ file' = f
  /\ UNCHANGED <<granted, enabled, catalog, served, shown, accepted, roster, call, task>>

CatalogChanges ==
  /\ Edit
  /\ \/ \E t \in Tools, s \in {"on", "disabled", "server_off", "off_route", "gone"} :
          s # catalog[t] /\ catalog' = [catalog EXCEPT ![t] = s] /\ UNCHANGED served
     \/ served' = ~served /\ UNCHANGED catalog
  /\ UNCHANGED <<file, granted, enabled, shown, accepted, roster, call, task>>

\* ListAgentProfiles, as the settings page shows it.
ListAgentProfiles ==
  /\ file # Absent /\ load(file) # Broken
  /\ shown' = revision(load(file)) /\ shown' # shown
  /\ UNCHANGED <<file, granted, enabled, catalog, served, accepted, roster, call, task, edits>>

\* A profile that does not parse cannot be turned on; a missing one cannot be set.
SetAgentProfileEnabled(on) ==
  /\ file # Absent /\ on # enabled /\ (on => load(file) # Broken)
  /\ enabled' = on
  /\ UNCHANGED <<file, granted, catalog, served, shown, accepted, roster, call, task, edits>>

\* What the user's click grants.
Granted(f) == IF revision(load(f)) = shown THEN shown ELSE granted

GrantAgentProfile ==
  /\ shown # None /\ file # Absent /\ load(file) # Broken
  /\ granted' = Granted(file)
  /\ accepted' = accepted \cup {shown}
  /\ UNCHANGED <<file, enabled, catalog, served, shown, roster, call, task, edits>>

\* Roster: the active specialists, frozen into the run when it is enqueued.
Enqueue ==
  /\ roster = None /\ file # Absent
  /\ State(load(file), enabled, granted) = "active"
  /\ roster' = revision(load(file))
  /\ UNCHANGED <<file, granted, enabled, catalog, served, shown, accepted, call, task, edits>>

\* admitDelegation: the roster's entry, then the folder as it is now.
ReadFile ==
  /\ roster # None /\ task = None /\ call = Idle
  /\ call' = IF file = Absent THEN Idle ELSE [pc |-> "settings", profile |-> load(file)]
  /\ UNCHANGED <<file, granted, enabled, catalog, served, shown, accepted, roster, task, edits>>

ReadSettings ==
  /\ call.pc = "settings"
  /\ call' = [pc |-> "resolve", profile |-> call.profile, on |-> enabled, granted |-> granted]
  /\ UNCHANGED <<file, granted, enabled, catalog, served, shown, accepted, roster, task, edits>>

Admitted(p) == State(p, call.on, call.granted) = "active" /\ revision(p) = roster

\* EgressRequired: some requirement is met by remote tools alone.
Required(p) == \E need \in p.requires : need \cap Resolved(p) = {}

Resolve ==
  LET p == call.profile IN
  /\ call.pc = "resolve"
  /\ call' = IF Admitted(p)
             THEN [pc |-> "create", profile |-> p, tools |-> Resolved(p), consent |-> Consent(p),
                   required |-> Required(p)]
             ELSE Idle
  /\ UNCHANGED <<file, granted, enabled, catalog, served, shown, accepted, roster, task, edits>>

\* CreateDelegation asks the settings for the offered revision.
StillGranted == enabled /\ granted = roster

CreateDelegation ==
  /\ call.pc = "create"
  /\ task' = IF StillGranted THEN call ELSE None
  /\ call' = Idle
  /\ UNCHANGED <<file, granted, enabled, catalog, served, shown, accepted, roster, edits>>

Next ==
  \/ \E f \in Texts \cup {Absent} : EditFile(f)
  \/ \E on \in BOOLEAN : SetAgentProfileEnabled(on)
  \/ CatalogChanges \/ ListAgentProfiles \/ GrantAgentProfile
  \/ Enqueue \/ ReadFile \/ ReadSettings \/ Resolve \/ CreateDelegation

Spec == Init /\ [][Next]_vars

-----------------------------------------------------------------------------

TypeOK ==
  /\ file \in Texts \cup {Absent} /\ enabled \in BOOLEAN /\ served \in BOOLEAN
  /\ call.pc \in {"idle", "settings", "resolve", "create"}
  /\ call.pc = "create" => call.tools \cap call.consent = {}

\* A revision that counts as granted is one the user was shown and accepted,
\* however the file changed between the screen and the click.
GrantedWasSeen == granted # None => granted \in accepted

\* A task is made from the revision that its run was offered and that is granted
\* and enabled at that moment, whatever was edited or revoked since the run was
\* enqueued or the admission began.
MadeAsGranted ==
  [][task = None /\ task' # None =>
       /\ enabled
       /\ task'.profile.tools = granted.tools /\ task'.profile.memory = granted.memory
       /\ task'.profile.requires = granted.requires /\ granted = roster]_vars

\* A task's tools are within what its file declares, keep to its memory level,
\* never delegate again, and leave the machine only by way of the user's consent.
ToolsWithinProfile ==
  task # None =>
    /\ task.tools \cup task.consent \subseteq task.profile.tools
    /\ \A t \in task.tools \cup task.consent :
         /\ Kind[t] # "team"
         /\ Kind[t] = "memory_read" => task.profile.memory # "none"
         /\ Kind[t] = "memory_propose" => task.profile.memory = "propose"
    /\ \A t \in task.tools : Kind[t] # "remote"

\* A task has a tool for everything its profile requires once the user consents,
\* and without that consent too unless it is marked as not able to do without.
CanDoItsJob ==
  task # None => \A need \in task.profile.requires :
    /\ need \cap (task.tools \cup task.consent) # {}
    /\ ~task.required => need \cap task.tools # {}

=============================================================================
