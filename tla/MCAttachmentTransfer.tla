----------------------- MODULE MCAttachmentTransfer -----------------------
(* An instance of AttachmentTransfer for TLC: an upload and two downloads. *)
EXTENDS AttachmentTransfer
CONSTANTS up, down, other
=============================================================================
