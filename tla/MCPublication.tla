--------------------------- MODULE MCPublication ---------------------------
(* An execution of any kind, and one whose changes are wanted if there are any. *)
(* The checks block at first, or the environment has a command.                 *)
EXTENDS Publication, TLC
ModesOf1 == 1 :> Modes @@ 2 :> {"loose"}
Profile(enabled, mode, service, steps) ==
  [shaped |-> TRUE, enabled |-> enabled, mode |-> mode, service |-> service,
   steps |-> steps, runtime |-> "unset"]
Run(preset) == [preset |-> preset, on |-> TRUE]
Both == {Profile(TRUE, "block", "named", <<Run("lint"), [preset |-> "format", on |-> FALSE],
                                           Run("test")>>)}
Warn == {Profile(TRUE, "warn", "named", <<Run("lint")>>)}
Off == {Profile(FALSE, "block", "named", <<Run("test")>>)}
Config(override, default, legacy, language) ==
  [override |-> override, default |-> default, legacy |-> legacy, language |-> language]
Blocking == Config(Both, Warn, "", "node")
Legacy == Config({}, {}, "command", "node")
Configs1 == {Blocking, Legacy, Config({}, Warn, "", "node"), Config(Off, Both, "", "node")}
FirstConfigs1 == {Blocking, Legacy}
=============================================================================
