------------------------------ MODULE CloudInit ------------------------------
(***************************************************************************)
(* One macvf_cloudinit_disk: a directory whose files seed a virtual        *)
(* machine, and the record of it. Create writes the files one after the    *)
(* other into a directory that may hold those of an earlier Create; Delete *)
(* removes the directory entry by entry. Either may fail or end with the   *)
(* provider between any two steps. Delete of the pool the directory is in  *)
(* takes what is left of it.                                               *)
(***************************************************************************)

CONSTANTS
    Data,       \* what a file may be given, the empty text among it
    Config,     \* what the configuration of the resource may ask for
    Absent,     \* no file
    Torn        \* a file that was not written to its end

\* In the order in which Create writes them.
Files == {"user-data", "meta-data", "network-config"}

ASSUME DataAssumption == Absent \notin Data /\ Torn \notin Data \cup {Absent}
\* Without meta_data an empty file is asked for, without network_config none.
ASSUME ConfigAssumption ==
    \A w \in Config :
        /\ w \in [Files -> Data \cup {Absent}]
        /\ w["user-data"] # Absent /\ w["meta-data"] # Absent

VARIABLES
    seed,       \* the record, the file Create writes next, or a Delete
    want,       \* the configuration in the record or of the Create
    entry,      \* the files in the directory
    damaged,    \* history: a Delete of this record was cut short
    leftover    \* history: a Create or Delete was cut short since the
                \* directory was last removed

seedVars == <<seed, want, entry, damaged, leftover>>

SeedTypeOK ==
    /\ seed \in Files \cup {"none", "commit", "recorded", "removing"}
    /\ want \in Config
    /\ entry \in [Files -> Data \cup {Absent, Torn}]
    /\ damaged \in BOOLEAN
    /\ leftover \in BOOLEAN

SeedInit ==
    /\ seed = "none"
    /\ want \in Config
    /\ entry = [f \in Files |-> Absent]
    /\ damaged = FALSE
    /\ leftover = FALSE

-----------------------------------------------------------------------------
(* Create.                                                                 *)

\* MkdirAll takes over a directory that exists.
StartSeed(w) ==
    /\ seed = "none"
    /\ seed' = "user-data"
    /\ want' = w
    /\ UNCHANGED <<entry, damaged, leftover>>

\* What follows the writing of f.
After(f) ==
    IF f = "user-data" THEN "meta-data"
    ELSE IF f = "meta-data" /\ want["network-config"] # Absent
    THEN "network-config"
    ELSE "commit"

\* Deviation: a file that exists is kept.
WriteNewFile ==
    /\ seed \in Files
    /\ entry' = [entry EXCEPT ![seed] = IF @ = Absent THEN want[seed] ELSE @]
    /\ seed' = After(seed)
    /\ UNCHANGED <<want, damaged, leftover>>

\* os.WriteFile replaces what a file held.
WriteFile ==
    /\ seed \in Files
    /\ entry' = [entry EXCEPT ![seed] = want[seed]]
    /\ seed' = After(seed)
    /\ UNCHANGED <<want, damaged, leftover>>

CommitSeed ==
    /\ seed = "commit"
    /\ seed' = "recorded"
    /\ UNCHANGED <<want, entry, damaged, leftover>>

\* A file that cannot be written is as it was or torn; those written before it
\* stay, and there is no record.
SeedFails ==
    /\ seed \in Files
    /\ \E left \in {entry[seed], Torn} : entry' = [entry EXCEPT ![seed] = left]
    /\ seed' = "none"
    /\ leftover' = TRUE
    /\ UNCHANGED <<want, damaged>>

-----------------------------------------------------------------------------
(* Read and Delete.                                                        *)

\* Read looks for the user-data alone.
ReadSeedDrops ==
    /\ seed = "recorded"
    /\ entry["user-data"] = Absent
    /\ seed' = "none"
    /\ damaged' = FALSE
    /\ UNCHANGED <<want, entry, leftover>>

DeleteSeed ==
    /\ seed = "recorded"
    /\ seed' = "removing"
    /\ UNCHANGED <<want, entry, damaged, leftover>>

RemoveFile(f) ==
    /\ seed = "removing"
    /\ entry[f] # Absent
    /\ entry' = [entry EXCEPT ![f] = Absent]
    /\ UNCHANGED <<seed, want, damaged, leftover>>

Removed ==
    /\ seed = "removing"
    /\ \A f \in Files : entry[f] = Absent
    /\ seed' = "none"
    /\ damaged' = FALSE
    /\ leftover' = FALSE
    /\ UNCHANGED <<want, entry>>

\* RemoveAll stops at an error, and the record stays.
RemoveFails ==
    /\ seed = "removing"
    /\ seed' = "recorded"
    /\ damaged' = TRUE
    /\ leftover' = TRUE
    /\ UNCHANGED <<want, entry>>

-----------------------------------------------------------------------------
(* Delete of the pool: without a record of the seed, entry by entry.       *)

PoolTakesFile(f) ==
    /\ seed = "none"
    /\ entry[f] # Absent
    /\ entry' = [entry EXCEPT ![f] = Absent]
    /\ UNCHANGED <<seed, want, damaged, leftover>>

PoolTakesDirectory ==
    /\ seed = "none"
    /\ \A f \in Files : entry[f] = Absent
    /\ leftover' = FALSE
    /\ UNCHANGED <<seed, want, entry, damaged>>

-----------------------------------------------------------------------------
\* The provider dies: a Create is cut short as by a failure, or before its
\* record was saved, and a Delete as by a failure.
SeedCutShort ==
    \/ SeedFails
    \/ /\ seed = "commit"
       /\ seed' = "none"
       /\ leftover' = TRUE
       /\ UNCHANGED <<want, entry, damaged>>
    \/ RemoveFails
    \/ seed \in {"none", "recorded"} /\ UNCHANGED seedVars

SeedSteps ==
    \/ WriteFile \/ CommitSeed \/ SeedFails
    \/ ReadSeedDrops \/ DeleteSeed \/ Removed \/ RemoveFails
    \/ \E f \in Files : RemoveFile(f)

SeedNext ==
    \/ \E w \in Config : StartSeed(w)
    \/ SeedSteps \/ SeedCutShort
    \/ \E f \in Files : PoolTakesFile(f)
    \/ PoolTakesDirectory

SeedSpec == SeedInit /\ [][SeedNext]_seedVars

-----------------------------------------------------------------------------
(* Properties.                                                             *)

\* A recorded directory holds the files that its configuration asks for,
\* whatever an earlier Create left there, unless a Delete began to remove them.
\* The exception is a network-config that was not asked for: Create leaves one
\* that a Create or Delete cut short has left.
SeedAsPlanned ==
    seed = "recorded" /\ ~damaged =>
        \A f \in Files :
            \/ entry[f] = want[f]
            \/ f = "network-config" /\ want[f] = Absent /\ leftover

=============================================================================
