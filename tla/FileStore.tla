------------------------------ MODULE FileStore ------------------------------
(***************************************************************************)
(* The two files a processing job writes: the tool's output in TEMP_DIR    *)
(* (internal/media/processor.go) and the object in the storage backend     *)
(* (internal/storage).  Both have a name fixed by the job's id, so every   *)
(* attempt of a job overwrites the files of the attempt before it.         *)
(***************************************************************************)
EXTENDS Calls

CONSTANT Backend        \* STORAGE_BACKEND: "local", or "s3" for any other

ASSUME BackendAssumption == Backend \in {"local", "s3"}

VARIABLES
    temp,       \* the file in TEMP_DIR
    blob        \* the object under assets/<job id>/<filename>

fileVars == <<temp, blob>>

(* "partial": opened for writing and perhaps not written to its end.       *)
Contents == {"none", "partial", "whole"}

FileTypeOK ==
    /\ temp \in [Jobs -> Contents]
    /\ blob \in [Jobs -> Contents]

FileInit ==
    /\ temp = [j \in Jobs |-> "none"]
    /\ blob = [j \in Jobs |-> "none"]

(* ffmpeg -y opens the output and truncates it; what is there counts as    *)
(* unfinished until ffmpeg exits with success.                             *)
BeginOutput(j) == temp' = [temp EXCEPT ![j] = "partial"] /\ UNCHANGED blob
EndOutput(j)   == temp' = [temp EXCEPT ![j] = "whole"]   /\ UNCHANGED blob
Cleanup(j)     == temp' = [temp EXCEPT ![j] = "none"]

(* LocalBackend.Store: os.Create truncates the object, io.Copy fills it.   *)
LocalCreate(j) == blob' = [blob EXCEPT ![j] = "partial"]
LocalCopy(j)   == blob' = [blob EXCEPT ![j] = "whole"]

(* Seeded fault: a failed upload leaves an unfinished object behind.       *)
PutObjectInPlace(o, j) ==
    blob' = [blob EXCEPT ![j] = IF Acked(o) THEN "whole" ELSE "partial"]

(* S3Backend.Store: PutObject replaces the object at once or not at all.   *)
PutObject(o, j) == blob' = Write(o, blob, j, "whole")
==============================================================================
