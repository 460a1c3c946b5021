------------------------------ MODULE ElogFile ------------------------------
(***************************************************************************)
(* EasyLogger's file plugin (elog_file.c): writers append lines to the log *)
(* file and rotate it when it is too large, under the plugin's port lock,  *)
(* while a controller initialises, reconfigures or shuts the plugin down.  *)
(* Openings, removals and renames can fail, and the system can restart     *)
(* between any two steps.                                                  *)
(*                                                                         *)
(* For each name, disk[f][0] is the log file and disk[f][i] the rotated    *)
(* file ".<i-1>"; a file that does not exist has no lines.  A line is its  *)
(* number in the order of writing to that name.  Lines written but still   *)
(* in the stdio buffer of fp are in cache.                                 *)
(***************************************************************************)
EXTENDS Naturals, Sequences, SequencesExt

CONSTANTS
    Writers,      \* the contexts that call elog_file_write
    Controller,   \* the one that calls elog_file_init, _config and _deinit
    NoOne,        \* the port lock is free
    Names,        \* the names of log files, no rotated file of one being another
    NoName,       \* NULL, or the empty string
    Builds,       \* ELOG_FILE_NAME, _MAX_SIZE (in lines) and _MAX_ROTATE
    Configs,      \* what elog_file_config is called with
    MaxFiles,     \* bound: rotated files of a name
    MaxWrites     \* bound: lines written to each name

ElogFileCfg == [name : Names \cup {NoName}, max_size : Nat, max_rotate : 0 .. MaxFiles]

ASSUME FileAssumption ==
    /\ Controller \notin Writers
    /\ NoOne \notin Writers \cup {Controller}
    /\ NoName \notin Names
    /\ MaxFiles \in Nat
    /\ Builds \cup Configs \subseteq ElogFileCfg

VARIABLES
    build,      \* which build this is; it never changes
    init_ok,
    fp,         \* whether fp is open, otherwise NULL
    local_cfg,
    owner,      \* holder of the port lock
    pc,         \* where each context is
    n,          \* loop variable of elog_file_rotate
    disk,       \* what the files hold
    cache,      \* lines in the stdio buffer of fp
    wrote,      \* history: lines written, but for those a restart lost
    whole,      \* history: how many of the newest rotated files have no gap
                \* between them
    mistaken    \* history: files that this rotation took for missing

vars == <<build, init_ok, fp, local_cfg, owner, pc, n, disk, cache, wrote,
          whole, mistaken>>

Contexts == Writers \cup {Controller}
Purposes == {"init", "config", "deinit"}
WritePoints == {"seek", "remove", "rename", "reopen", "reopen_failed", "write"}
Points == {"idle", "lock", "unlock", "fault"} \cup WritePoints \cup Purposes

Goto(c, point) == pc' = [pc EXCEPT ![c] = point]

\* What elog_file_deinit configures, and what local_cfg starts with.
NoConfig == [name |-> NoName, max_size |-> 0, max_rotate |-> 0]

name == local_cfg.name

\* The log file i of f, with what the stdio buffer holds of it.
File(f, i) == disk[f][i] \o (IF i = 0 /\ f = name THEN cache ELSE <<>>)

\* A close or a seek writes the stdio buffer to the file.
Flushed == IF name \in Names THEN [disk EXCEPT ![name][0] = @ \o cache] ELSE disk

\* After the lines of file i are given up, the files up to i have no gap, if
\* they had none.
WholeWithout(i) ==
    IF disk[name][i] = <<>> \/ whole[name] < i THEN whole[name] ELSE i

-----------------------------------------------------------------------------

Init ==
    /\ build \in Builds
    /\ init_ok = FALSE
    /\ fp = FALSE
    /\ local_cfg = NoConfig
    /\ owner = NoOne
    /\ pc = [c \in Contexts |-> "idle"]
    /\ n = 0
    /\ disk = [f \in Names |-> [i \in 0 .. MaxFiles |-> <<>>]]
    /\ cache = <<>>
    /\ wrote = [f \in Names |-> 0]
    /\ whole = [f \in Names |-> MaxFiles]
    /\ mistaken = {}

\* elog_file_write: the assertion on init_ok, and fp is looked at, unlocked.
WriteCall(w) ==
    /\ pc[w] = "idle"
    /\ init_ok
    /\ fp    \* otherwise it returns
    /\ Goto(w, "lock")
    /\ UNCHANGED <<build, init_ok, fp, local_cfg, owner, n, disk, cache,
                   wrote, whole, mistaken>>

\* elog_file_port_lock()
WriteLock(w) ==
    /\ pc[w] = "lock"
    /\ owner = NoOne
    /\ owner' = w
    /\ Goto(w, "seek")
    /\ UNCHANGED <<build, init_ok, fp, local_cfg, n, disk, cache, wrote,
                   whole, mistaken>>

\* The file was closed since fp was looked at: fseek is given NULL.
SeekNull(w) ==
    /\ pc[w] = "seek"
    /\ ~fp
    /\ Goto(w, "fault")
    /\ UNCHANGED <<build, init_ok, fp, local_cfg, owner, n, disk, cache,
                   wrote, whole, mistaken>>

\* fseek flushes, and ftell tells the size.
Seek(w) ==
    /\ pc[w] = "seek"
    /\ fp
    /\ disk' = Flushed
    /\ cache' = <<>>
    /\ UNCHANGED <<build, init_ok, local_cfg, owner, wrote, whole, mistaken>>

TooLarge == Len(File(name, 0)) > local_cfg.max_size

\* The file is not too large: the line will be written.
SeekRoom(w) ==
    /\ Seek(w)
    /\ ~TooLarge
    /\ Goto(w, "write")
    /\ UNCHANGED <<fp, n>>

\* It is too large and ELOG_FILE_MAX_ROTATE is 0: the line is dropped.
SeekDrop(w) ==
    /\ Seek(w)
    /\ TooLarge
    /\ build.max_rotate = 0
    /\ Goto(w, "unlock")
    /\ UNCHANGED <<fp, n>>

\* Rotation starts from one file too early.
SeekFull_OffByOne(w) ==
    /\ Seek(w)
    /\ TooLarge
    /\ build.max_rotate > 0
    /\ fp' = FALSE
    /\ n' = IF local_cfg.max_rotate = 0 THEN 0 ELSE local_cfg.max_rotate - 1
    /\ Goto(w, IF local_cfg.max_rotate > 1 THEN "remove" ELSE "reopen")

\* It is too large: elog_file_rotate closes it and enters its loop, n being
\* one more than the loop variable of the code.
SeekFull(w) ==
    /\ Seek(w)
    /\ TooLarge
    /\ build.max_rotate > 0
    /\ fp' = FALSE
    /\ n' = local_cfg.max_rotate
    /\ Goto(w, IF local_cfg.max_rotate > 0 THEN "remove" ELSE "reopen")

\* Remove newpath, unless it does not exist, cannot be opened or cannot be removed.
RotateRemove(w) ==
    /\ pc[w] = "remove"
    /\ \/ /\ disk' = [disk EXCEPT ![name][n] = <<>>]
          /\ whole' = [whole EXCEPT ![name] = WholeWithout(n)]
       \/ UNCHANGED <<disk, whole>>
    /\ Goto(w, "rename")
    /\ UNCHANGED <<build, init_ok, fp, local_cfg, owner, n, cache, wrote, mistaken>>

\* The loop goes on with the next file.
NextFile(w) ==
    /\ n' = n - 1
    /\ Goto(w, IF n = 1 THEN "reopen" ELSE "remove")

\* oldpath cannot be opened: because it does not exist, or although it does.
RotateMissing(w) ==
    /\ pc[w] = "rename"
    /\ mistaken' = IF disk[name][n - 1] = <<>> THEN mistaken
                   ELSE mistaken \cup {n - 1}
    /\ NextFile(w)
    /\ UNCHANGED <<build, init_ok, fp, local_cfg, owner, disk, cache, wrote, whole>>

\* A rename that copies.
RotateRename_Copies(w) ==
    /\ pc[w] = "rename"
    /\ disk[name][n - 1] # <<>>
    /\ disk' = [disk EXCEPT ![name][n] = disk[name][n - 1]]
    /\ whole' = [whole EXCEPT ![name] = IF WholeWithout(n) = n - 1 THEN n
                                        ELSE WholeWithout(n)]
    /\ NextFile(w)
    /\ UNCHANGED <<build, init_ok, fp, local_cfg, owner, cache, wrote, mistaken>>

\* Rename oldpath to newpath, in the place of one that could not be removed.
RotateRename(w) ==
    /\ pc[w] = "rename"
    /\ disk[name][n - 1] # <<>>
    /\ disk' = [disk EXCEPT ![name][n] = disk[name][n - 1], ![name][n - 1] = <<>>]
    /\ whole' = [whole EXCEPT ![name] = IF WholeWithout(n) = n - 1 THEN n
                                        ELSE WholeWithout(n)]
    /\ NextFile(w)
    /\ UNCHANGED <<build, init_ok, fp, local_cfg, owner, cache, wrote, mistaken>>

\* A failed rename goes on as a successful one does.
RotateFails_Ignored(w) ==
    /\ pc[w] = "rename"
    /\ disk[name][n - 1] # <<>>
    /\ Goto(w, "reopen")
    /\ UNCHANGED <<build, init_ok, fp, local_cfg, owner, n, disk, cache,
                   wrote, whole, mistaken>>

\* The rename fails: the rotation is given up.
RotateFails(w) ==
    /\ pc[w] = "rename"
    /\ disk[name][n - 1] # <<>>
    /\ Goto(w, "reopen_failed")
    /\ UNCHANGED <<build, init_ok, fp, local_cfg, owner, n, disk, cache,
                   wrote, whole, mistaken>>

\* fp = fopen(name, "a+"), which can fail; after a rotation that failed the
\* line is dropped, after one that did not it is written to what fp is.
Reopen(w) ==
    /\ pc[w] \in {"reopen", "reopen_failed"}
    /\ fp' \in BOOLEAN
    /\ Goto(w, IF pc[w] = "reopen_failed" THEN "unlock"
               ELSE IF fp' THEN "write" ELSE "fault")
    /\ UNCHANGED <<build, init_ok, local_cfg, owner, n, disk, cache, wrote,
                   whole, mistaken>>

\* fwrite: the line stays in the stdio buffer, or is written at once because
\* the buffer is full or ELOG_FILE_FLUSH_CACHE_ENABLE is defined.
Write(w) ==
    /\ pc[w] = "write"
    /\ wrote[name] < MaxWrites[name]
    /\ wrote' = [wrote EXCEPT ![name] = @ + 1]
    /\ \/ /\ cache' = Append(cache, wrote'[name])
          /\ UNCHANGED disk
       \/ /\ disk' = [disk EXCEPT ![name][0] = @ \o cache \o <<wrote'[name]>>]
          /\ cache' = <<>>
    /\ Goto(w, "unlock")
    /\ UNCHANGED <<build, init_ok, fp, local_cfg, owner, n, whole, mistaken>>

\* elog_file_port_unlock()
WriteUnlock(w) ==
    /\ pc[w] = "unlock"
    /\ owner' = NoOne
    /\ mistaken' = {}
    /\ Goto(w, "idle")
    /\ UNCHANGED <<build, init_ok, fp, local_cfg, n, disk, cache, wrote, whole>>

-----------------------------------------------------------------------------
\* elog_file_config, called directly or by elog_file_init and elog_file_deinit

\* It takes the lock and closes the file that is open.  elog_file_init does
\* nothing when init_ok, elog_file_deinit asserts it.
ConfigClose(purpose) ==
    /\ pc[Controller] = "idle" /\ owner = NoOne
    /\ purpose = "init" => ~init_ok
    /\ purpose = "deinit" => init_ok
    /\ owner' = Controller
    /\ disk' = Flushed
    /\ cache' = <<>>
    /\ fp' = FALSE
    /\ Goto(Controller, purpose)
    /\ UNCHANGED <<build, init_ok, local_cfg, n, wrote, whole, mistaken>>

\* The unlock; then elog_file_init sets and elog_file_deinit clears init_ok.
ConfigReturn ==
    /\ init_ok' = (IF pc[Controller] = "config" THEN init_ok ELSE pc[Controller] = "init")
    /\ owner' = NoOne
    /\ Goto(Controller, "idle")
    /\ UNCHANGED <<build, n, disk, cache, wrote, whole, mistaken>>

\* The configuration is copied and its file, if it has a name, opened.
ConfigOpen(cfg) ==
    /\ \/ pc[Controller] = "init" /\ cfg = build
       \/ pc[Controller] = "config" /\ cfg \in Configs
       \/ pc[Controller] = "deinit" /\ cfg = NoConfig
    /\ local_cfg' = cfg
    /\ fp' \in IF cfg.name = NoName THEN {FALSE} ELSE BOOLEAN
    /\ ConfigReturn

\* elog_file_config(NULL) leaves the file closed and the configuration alone.
ConfigNull ==
    /\ pc[Controller] = "config"
    /\ ConfigReturn
    /\ UNCHANGED <<fp, local_cfg>>

\* The system restarts: what is on disk stays, what is cached is lost.
Restart ==
    /\ init_ok' = FALSE
    /\ fp' = FALSE
    /\ local_cfg' = NoConfig
    /\ owner' = NoOne
    /\ pc' = [c \in Contexts |-> "idle"]
    /\ n' = 0
    /\ cache' = <<>>
    /\ wrote' = [f \in Names |-> wrote[f] - IF f = name THEN Len(cache) ELSE 0]
    /\ mistaken' = {}
    /\ UNCHANGED <<build, disk, whole>>

Next ==
    \/ \E w \in Writers :
          \/ WriteCall(w) \/ WriteLock(w) \/ SeekNull(w) \/ SeekRoom(w) \/ SeekDrop(w)
          \/ SeekFull(w) \/ RotateRemove(w) \/ RotateMissing(w) \/ RotateRename(w)
          \/ RotateFails(w) \/ Reopen(w) \/ Write(w) \/ WriteUnlock(w)
    \/ \E purpose \in Purposes : ConfigClose(purpose)
    \/ \E cfg \in Builds \cup Configs \cup {NoConfig} : ConfigOpen(cfg)
    \/ ConfigNull
    \/ Restart

Spec == Init /\ [][Next]_vars

-----------------------------------------------------------------------------

\* Through rotations, openings and renames that fail, restarts between two
\* renames and changed names, sizes and numbers of files, a file holds an
\* unbroken run of lines and an older file only earlier lines, none twice.  The
\* newest files hold the last lines written, none missing: all the files, but
\* for those beyond a gap that the removal of a file left (elog_file.c:69-145).
\* A restart loses one line at most: each write starts with a seek, which
\* flushes the one before it (elog_file.c:124, 137).
LastLinesInOrder ==
    \A f \in Names :
        /\ \A i \in 0 .. MaxFiles : \A j \in 1 .. Len(File(f, i)) :
              File(f, i)[j] = File(f, i)[1] + (j - 1)
        /\ \A i, k \in 0 .. MaxFiles :
              i < k => \A old \in ToSet(File(f, k)), new \in ToSet(File(f, i)) : old < new
        /\ \E first \in 0 .. wrote[f] :
              UNION {ToSet(File(f, i)) : i \in 0 .. whole[f]} = first + 1 .. wrote[f]
        /\ Len(cache) <= 1

\* What a rotation may give up: the oldest file that the configuration has,
\* and a rotated file that it took for missing, which the next round removes.
Expendable == ({local_cfg.max_rotate} \cup mistaken) \ {0}

\* Lines are only ever given up from such files of the current name, or from
\* the stdio buffer, by a restart: never from the log file, from a file that is
\* being shifted, or from one beyond a smaller number of files.
OnlyOldestRemoved ==
    [][\A f \in Names : \A i \in 0 .. MaxFiles : \A line \in ToSet(File(f, i)) :
          \/ \E k \in 0 .. MaxFiles : line \in ToSet(File(f, k)')
          \/ f = name /\ i \in Expendable
          \/ f = name /\ Restart /\ line \in ToSet(cache)]_vars

\* A line is appended to a file that already exceeds the configured size only
\* if the files are configured not to be rotated in a build that rotates, or if
\* this rotation took the log file itself for missing; not because a rename
\* failed, and never in a build with ELOG_FILE_MAX_ROTATE 0.
SizeBounded ==
    [][\A f \in Names : wrote'[f] > wrote[f] =>
          \/ Len(File(f, 0)) <= local_cfg.max_size
          \/ build.max_rotate > 0 /\ (local_cfg.max_rotate = 0 \/ 0 \in mistaken)]_vars
=============================================================================
