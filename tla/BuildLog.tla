------------------------------- MODULE BuildLog -------------------------------
(***************************************************************************)
(* What the tail of a failed build's log is taken to mean.  A tail is the  *)
(* set of the phrases in it that the classifier knows.                     *)
(***************************************************************************)
EXTENDS Naturals

(* exit-42: kaniko's line on a RUN that exits with 42.  no-shell: fork of  *)
(* /bin/sh fails with ENOENT or ENOEXEC.  registry: a refusal by a         *)
(* registry in one of eleven wordings; manifest-for and not-found: the two *)
(* halves of one more.  network: DNS, TCP and curl errors.                 *)
Phrases == {"exit-42", "no-shell", "registry", "manifest-for", "not-found", "network"}

ClassifyHalves(tail) ==             \* mutant: either half of the wording will do
    CASE tail \cap {"exit-42", "no-shell"} # {} -> "ImageOSNotSupported"
      [] tail \cap {"exit-42", "no-shell"} = {}
         /\ tail \cap {"registry", "manifest-for", "not-found"} # {} -> "InvalidImage"
      [] OTHER -> IF "network" \in tail THEN "NetworkError" ELSE "ControllerInternalError"

SaysUnsupported(tail) == tail \cap {"exit-42", "no-shell"} # {}
SaysRefused(tail)     == "registry" \in tail \/ {"manifest-for", "not-found"} \subseteq tail

(* The first that applies.                                                 *)
ClassifyLogTail(tail) ==
    CASE SaysUnsupported(tail) -> "ImageOSNotSupported"
      [] ~SaysUnsupported(tail) /\ SaysRefused(tail) -> "InvalidImage"
      [] ~SaysUnsupported(tail) /\ ~SaysRefused(tail) ->
            IF "network" \in tail THEN "NetworkError" ELSE "ControllerInternalError"
=============================================================================
