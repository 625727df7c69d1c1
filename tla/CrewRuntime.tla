------------------------------ MODULE CrewRuntime ------------------------------
(* The bundled Python runtime of crews (app/src-tauri/src/crew_python_bridge.rs): *)
(* two archives of the installed release are unpacked beside a marker file, a     *)
(* virtual environment is built from them, and both are looked at again before    *)
(* every crew run. Unpacking happens on the main thread (status and bootstrap     *)
(* commands) and on the thread of a starting crew; nothing excludes the two, and  *)
(* the application may exit at any point or be updated to another bundle.          *)
EXTENDS Integers, FiniteSets

CONSTANTS Parts,       \* entries of an archive; 1 is python.exe, or the crewai wheel
          PythonOf,    \* PythonOf[b]: the Python version bundle b carries
          CrewOf,      \* CrewOf[b]: its CrewAI version
          Sound,       \* bundles whose archives agree with their manifest
          MaxFaults,   \* bound: failed copies and failed pip runs
          MaxRestarts, \* bound: exits of the application
          MaxCalls     \* bound: commands and crew starts

Dirs == {"python", "wheels"}
Actors == {"main", "crew"}
Bundles == DOMAIN PythonOf
None == 0

VARIABLES bundle,     \* the release now installed
          files,      \* [Dirs -> set of <<bundle, part>>]
          marker,     \* [Dirs -> the bundle the marker file names]
          venv,       \* [python, packages]; packages: the bundle pip installed from
          actor,      \* [Actors -> [at, dir, next, fresh, verify, boot, force]]
          overlapped, \* directories two threads unpacked at the same time
          ready,      \* [Actors -> was the runtime ready when it last asked]
          faults, restarts, calls

vars == <<bundle, files, marker, venv, actor, overlapped, ready, faults, restarts, calls>>
disk == <<files, marker, venv>>
history == <<bundle, overlapped, ready, restarts, calls>>

Whole(d) == \A p \in Parts : <<bundle, p>> \in files[d]

Resting == [at |-> "idle", dir |-> "python", next |-> 1, fresh |-> FALSE,
            verify |-> FALSE, boot |-> FALSE, force |-> FALSE]

Init ==
    /\ bundle = 1
    /\ files = [d \in Dirs |-> {}]
    /\ marker = [d \in Dirs |-> None]
    /\ venv = [python |-> None, packages |-> None]
    /\ actor = [a \in Actors |-> Resting]
    /\ overlapped = {}
    /\ ready = [a \in Actors |-> FALSE]
    /\ faults = 0 /\ restarts = 0 /\ calls = 0

Move(a, at) == actor' = [actor EXCEPT ![a].at = at]

(* enforce_bundle_status on what the runtime's own status script reports         *)
Ready == /\ venv.packages # None
         /\ venv.python = PythonOf[bundle]
         /\ CrewOf[venv.packages] = CrewOf[bundle]

(* validate_bundled_runtime: the manifest, the archives' hashes, the smoke test   *)
Validated == bundle \in Sound

(* crew_runtime_bootstrap (verifies cached wheels), crew_runtime_status, and     *)
(* crew_runtime_execute_request all begin with ensure_bundled_runtime_assets.    *)
Call(a, boot, force) ==
    /\ actor[a].at = "idle"
    /\ calls < MaxCalls /\ calls' = calls + 1
    /\ a = "crew" => ~boot
    /\ force => boot
    /\ actor' = [actor EXCEPT ![a] = [Resting EXCEPT !.at = IF Validated THEN "check" ELSE "idle",
                                   !.boot = boot, !.verify = boot, !.force = force]]
    /\ UNCHANGED <<disk, bundle, overlapped, ready, faults, restarts>>

-----------------------------------------------------------------------------
Emptied(d) == files' = [files EXCEPT ![d] = {}] /\ marker' = [marker EXCEPT ![d] = None]

(* extract_zip_if_needed: a marker of this archive ends it, otherwise the        *)
(* directory is removed and unpacked entry by entry.                             *)
check(a) ==
    /\ actor[a].at = "check"
    /\ LET d == actor[a].dir IN
       IF marker[d] = bundle
       THEN /\ actor' = [actor EXCEPT ![a].at = "verify", ![a].fresh = FALSE]
            /\ UNCHANGED <<files, marker, overlapped>>
       ELSE /\ actor' = [actor EXCEPT ![a].at = "extract", ![a].fresh = TRUE, ![a].next = 1]
            /\ Emptied(d)
            /\ overlapped' = IF \E o \in Actors \ {a} :
                                  actor[o].dir = d /\ actor[o].fresh /\ actor[o].at \in {"extract", "verify"}
                             THEN overlapped \cup {d} ELSE overlapped
    /\ UNCHANGED <<venv, bundle, ready, faults, restarts, calls>>

extract(a) ==
    /\ actor[a].at = "extract"
    /\ actor[a].next \in Parts
    /\ files' = [files EXCEPT ![actor[a].dir] =
                    {f \in @ : f[2] # actor[a].next} \cup {<<bundle, actor[a].next>>}]
    /\ actor' = [actor EXCEPT ![a].next = @ + 1,
                              ![a].at = IF actor[a].next + 1 \in Parts THEN "extract" ELSE "verify"]
    /\ UNCHANGED <<marker, venv, faults, history>>

(* An I/O error returns at once and leaves the entries copied so far.            *)
extract_failed(a) ==
    /\ actor[a].at = "extract"
    /\ faults < MaxFaults /\ faults' = faults + 1
    /\ Move(a, "idle")
    /\ UNCHANGED <<disk, history>>

(* Python is started once; the wheels are compared with the manifest.            *)
Verified(a) ==
    IF actor[a].dir = "python" THEN \E b \in Bundles : /\ <<b, 1>> \in files["python"]
                                                       /\ PythonOf[b] = PythonOf[bundle]
    ELSE /\ {f[2] : f \in files["wheels"]} = Parts
         /\ (actor[a].fresh \/ actor[a].verify) => Whole("wheels")

(* mark_zip_extraction_complete, only after the check                            *)
Marked(a) == IF actor[a].fresh THEN [marker EXCEPT ![actor[a].dir] = bundle] ELSE marker

verify(a) ==
    /\ actor[a].at = "verify"
    /\ IF ~Verified(a)
       THEN Move(a, "idle") /\ UNCHANGED marker
       ELSE /\ marker' = Marked(a)
            /\ actor' = IF actor[a].dir = "python"
                        THEN [actor EXCEPT ![a].dir = "wheels", ![a].at = "check", ![a].fresh = FALSE]
                        ELSE [actor EXCEPT ![a].at = IF actor[a].boot THEN "venv" ELSE "status"]
    /\ UNCHANGED <<files, venv, faults, history>>

-----------------------------------------------------------------------------
(* crew_runtime_bootstrap after its assets: an environment of another Python, or  *)
(* one the user wants rebuilt, is removed first.                                  *)
remake_venv(a) ==
    /\ actor[a].at = "venv"
    /\ venv' = IF actor[a].force \/ venv.python # PythonOf[bundle]
               THEN [python |-> PythonOf[bundle], packages |-> None]
               ELSE venv
    /\ Move(a, "pip")
    /\ UNCHANGED <<files, marker, faults, history>>

(* pip installs from the unpacked wheels only.                                   *)
install(a) ==
    /\ actor[a].at = "pip"
    /\ IF Whole("wheels") THEN venv' = [venv EXCEPT !.packages = bundle] ELSE UNCHANGED venv
    /\ Move(a, IF Whole("wheels") THEN "status" ELSE "idle")
    /\ UNCHANGED <<files, marker, faults, history>>

(* A failed install may have removed the old packages.                            *)
install_failed(a) ==
    /\ actor[a].at = "pip"
    /\ faults < MaxFaults /\ faults' = faults + 1
    /\ \E p \in {None, venv.packages} : venv' = [venv EXCEPT !.packages = p]
    /\ Move(a, "idle")
    /\ UNCHANGED <<files, marker, history>>

(* What the status command answers; a crew goes on to its process if it is ready,  *)
(* in the environment as it is by then.                                          *)
status(a) ==
    /\ actor[a].at = "status"
    /\ ready' = [ready EXCEPT ![a] = Ready]
    /\ Move(a, "idle")
    /\ UNCHANGED <<disk, bundle, overlapped, faults, restarts, calls>>

(* The application ends, and may come back as another release.                    *)
restart(b) ==
    /\ restarts < MaxRestarts /\ restarts' = restarts + 1
    /\ b >= bundle
    /\ bundle' = b
    /\ actor' = [a \in Actors |-> Resting]
    /\ UNCHANGED <<disk, overlapped, ready, faults, calls>>

Next == \/ \E a \in Actors, boot, force \in BOOLEAN : Call(a, boot, force)
        \/ \E a \in Actors : \/ check(a) \/ extract(a) \/ extract_failed(a) \/ verify(a)
                             \/ remake_venv(a) \/ install(a) \/ install_failed(a)
                             \/ status(a)
        \/ \E b \in Bundles : restart(b)

Spec == Init /\ [][Next]_vars

-----------------------------------------------------------------------------
(* A directory whose marker names the installed bundle holds every entry of its   *)
(* archive, after any crash, failed copy or update, unless two threads unpacked    *)
(* it at the same time (extract_zip_if_needed, mark_zip_extraction_complete).      *)
MarkedIsWhole ==
    \A d \in Dirs \ overlapped : marker[d] = bundle => Whole(d)
=============================================================================
