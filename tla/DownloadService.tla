---------------------------- MODULE DownloadService ----------------------------
(***************************************************************************)
(* The download service: it reads the job row, picks the bucket from the   *)
(* conversion type and signs a link to the row's output_url, which it      *)
(* would then keep in the row.  Nothing in the program writes output_url,  *)
(* so no link is ever signed and the service changes no state: what the    *)
(* pipeline depends on is the choice of the bucket.                        *)
(***************************************************************************)
EXTENDS Stores

Bucket(j) == IF conversion_type[j] \in Conversions THEN "converted" ELSE "compressed"
===============================================================================
