-------------------------- MODULE PreCommitChecks --------------------------
(***************************************************************************)
(* The checks that run on the changes of an execution before they are      *)
(* committed: what a profile is, which one applies, and which outcomes its *)
(* commands can have.  A profile that may be missing is a set of at most   *)
(* one profile.                                                            *)
(***************************************************************************)
EXTENDS Naturals, Sequences, SequencesExt, Functions

CheckModes == {"warn", "block"}
DefaultMode == "warn"
Presets == {"format", "lint", "test"}
Languages == {"php", "node"}

\* A profile as a request body or a JSON column may hold it.  `shaped`: the fields are
\* there, of their types, and the runner is a compose_service.
RawProfile(p) ==
  /\ DOMAIN p = {"shaped", "enabled", "mode", "service", "steps", "runtime"}
  /\ p.shaped \in BOOLEAN /\ p.enabled \in BOOLEAN
  /\ p.mode \in CheckModes \cup {"unset", "unknown"}
  /\ p.service \in {"named", "misnamed", "blank"}
  /\ \A i \in DOMAIN p.steps : /\ p.steps[i].preset \in Presets \cup {"unknown"}
                               /\ p.steps[i].on \in BOOLEAN
  /\ p.runtime \in Languages \cup {"unset", "unknown"}

\* The steps of p that are enabled, by their places.
EnabledSteps(p) == {i \in DOMAIN p.steps : p.steps[i].on}
PresetsAt(p, places) == {p.steps[i].preset : i \in places}

ValidSteps(steps) ==
  /\ steps # <<>> /\ \A i \in DOMAIN steps : steps[i].preset \in Presets
  /\ IsInjective([i \in DOMAIN steps |-> steps[i].preset])

\* normalizePreCommitChecksProfile: the profile with its defaults; what it throws at
\* is no profile.  The name of the service is not looked at.
Normalized(raw) ==
  {[p EXCEPT !.mode = IF @ = "unset" THEN DefaultMode ELSE @] :
     p \in {q \in raw : /\ q.shaped /\ q.service # "blank" /\ ValidSteps(q.steps)
                        /\ (q.enabled => EnabledSteps(q) # {})
                        /\ q.mode # "unknown" /\ q.runtime # "unknown"}}

\* Mutant: the user's default goes before the override of the repository.
ResolvedDefaultFirst(override, default, legacy) ==
  IF default # {} THEN [source |-> "user_default", profile |-> default]
  ELSE IF Normalized(override) # {}
    THEN [source |-> "repository", profile |-> Normalized(override)]
  ELSE IF legacy # "" THEN [source |-> "legacy_env", profile |-> {}]
  ELSE [source |-> "none", profile |-> {}]

\* resolve: the override of the repository if it is valid, enabled or not; the user's
\* default; EXECUTION_PRE_PR_CHECK_COMMAND.
Resolved(override, default, legacy) ==
  IF Normalized(override) # {} THEN [source |-> "repository", profile |-> Normalized(override)]
  ELSE IF default # {} THEN [source |-> "user_default", profile |-> default]
  ELSE IF legacy # "" THEN [source |-> "legacy_env", profile |-> {}]
  ELSE [source |-> "none", profile |-> {}]

Result(status, mode, ran) == [status |-> status, mode |-> mode, passed |-> ran]
Skipped(mode) == Result("skipped", mode, {})

\* The enabled steps pass one after the other, all of them or up to one that fails.
Sequential(p) ==
  {Result("passed", p.mode, PresetsAt(p, EnabledSteps(p)))}
    \cup {Result("failed", p.mode, PresetsAt(p, {i \in EnabledSteps(p) : i < n})) :
            n \in EnabledSteps(p)}

\* A command of a service that has no valid name is not run, nor any command when the
\* runtime is not set and the files of the repository do not tell the language.
Runnable(p, language) ==
  p.service = "named" /\ (p.runtime \in Languages \/ language \in Languages)

\* The outcomes the enabled steps of a profile may have.  A step that throws (a timeout)
\* ends them all like one that fails.
ProfileResults(p, language) ==
  IF ~p.enabled \/ EnabledSteps(p) = {} THEN {Skipped(p.mode)}
  ELSE IF ~Runnable(p, language) THEN {Result("failed", p.mode, {})}
  ELSE Sequential(p)

\* The command of the environment; one that is not closed properly is not run.
LegacyResults(legacy) ==
  {Result("failed", "block", {})}
    \cup (IF legacy = "command" THEN {Result("passed", "block", {"legacy"})} ELSE {})

\* runForExecution, when the configuration can be read ...
Results(resolved, legacy, language) ==
  CASE resolved.source = "none" -> {Skipped(DefaultMode)}
    [] resolved.source = "legacy_env" -> LegacyResults(legacy)
    [] OTHER -> UNION {ProfileResults(p, language) : p \in resolved.profile}
\* ... and when it cannot.
Unread == Result("failed", DefaultMode, {"unread"})
=============================================================================
