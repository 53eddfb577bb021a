-------------------------------- MODULE Stores --------------------------------
(***************************************************************************)
(* The state the services share besides the broker: the jobs table (its    *)
(* columns status, upload_url and conversion_type) written through         *)
(* JobRepository, and the storage buckets: the raw uploads, the converted  *)
(* documents and the compressed documents.  An uploaded object is its job  *)
(* and extension, an output its job and target format.                     *)
(***************************************************************************)
EXTENDS Integers

CONSTANTS
    Jobs,     \* job ids
    Exts,     \* file name extensions of uploads, as suffix(path).lower()
    Formats,  \* target_format values of start requests
    Null      \* SQL NULL

VARIABLES
    status,           \* [job -> JobStatus, or "absent" when there is no row]
    upload_url,       \* [job -> extension of the signed upload path]
    conversion_type,  \* [job -> target format of the last conversion begun]
    raw,              \* uploaded objects
    converted,        \* objects of the converted bucket
    compressed        \* jobs with an object in the compressed bucket

storeVars == <<status, upload_url, conversion_type, raw, converted, compressed>>

JobStatus == {"processing", "completed", "failed"}

\* The target formats served by class Conversion, with the input each accepts.
InputOf == [docx |-> "pdf", pptx |-> "pdf", pdf |-> "docx"]
Conversions == {"docx", "pptx", "pdf"}

ASSUME NullAssumption == Null \notin Exts /\ Null \notin Conversions

StoresInit ==
    /\ status = [j \in Jobs |-> "absent"]
    /\ upload_url = [j \in Jobs |-> Null]
    /\ conversion_type = [j \in Jobs |-> Null]
    /\ raw = {}
    /\ converted = {}
    /\ compressed = {}

CreateRow(j, e) ==
    /\ status' = [status EXCEPT ![j] = "processing"]
    /\ upload_url' = [upload_url EXCEPT ![j] = e]

UpdateStatus(j, s) == status' = [status EXCEPT ![j] = s]

UpdateRecord(j, f) == conversion_type' = [conversion_type EXCEPT ![j] = f]

StoresTypeOK ==
    /\ status \in [Jobs -> JobStatus \cup {"absent"}]
    /\ upload_url \in [Jobs -> Exts \cup {Null}]
    /\ conversion_type \in [Jobs -> Conversions \cup {Null}]
    /\ raw \subseteq Jobs \X Exts
    /\ converted \subseteq Jobs \X Conversions
    /\ compressed \subseteq Jobs
===============================================================================
