--------------------------- MODULE MCMailPipeline ---------------------------
(* Instances of MailPipeline: a good mail, a malformed one, a refused one. *)
EXTENDS MailPipeline

CONSTANTS good, bad, refused
=============================================================================
