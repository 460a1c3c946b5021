----------------------------- MODULE ElogFileMC -----------------------------
(***************************************************************************)
(* Two names; builds that rotate two files and none; configurations that   *)
(* change the name, the size and the number of files, also to none.        *)
(***************************************************************************)
EXTENDS ElogFile

CONSTANTS Log, Other

Config(f, size, rotate) == [name |-> f, max_size |-> size, max_rotate |-> rotate]

MCNames == {Log, Other}
MCBuilds == {Config(Log, 0, 3), Config(Log, 0, 0)}
MCConfigs == {Config(Log, 1, 1), Config(Log, 0, 0), Config(Other, 0, 1), NoConfig}
MCMaxWrites == [f \in MCNames |-> IF f = Log THEN 5 ELSE 2]
=============================================================================
