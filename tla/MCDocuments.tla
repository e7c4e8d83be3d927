---------------------------- MODULE MCDocuments ----------------------------
(* Documents for TLC.  Each behaviour either follows one document through  *)
(* everything that the model knows, or two that compete for the places of  *)
(* the retry, which nobody expires or deletes and no fault hits.           *)
EXTENDS DocumentPipeline

CONSTANT Single    \* the document of the behaviours with one

VARIABLE part

SingleOnly == \A d \in Doc \ {Single} : docs'[d] = NoRow

(* Only what comes from outside is left out, never a step of a job or of   *)
(* the retry: fairness asks for nothing that is forbidden here.            *)
Undisturbed ==
    /\ faults' = 0
    /\ \A d \in Doc : /\ decisions'[d] <= 1
                      /\ docs'[d] # NoRow => /\ ~docs'[d].expired
                                             /\ docs'[d].deleted = "no"

DocumentsInit == part \in {"single", "several"} /\ Init

DocumentsNext ==
    /\ UNCHANGED part
    /\ Next
    /\ IF part = "single" THEN SingleOnly ELSE Undisturbed

DocumentsSpec ==
    DocumentsInit /\ [][DocumentsNext]_<<part, vars>> /\ Fairness

=============================================================================
