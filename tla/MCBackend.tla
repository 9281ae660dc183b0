----------------------------- MODULE MCBackend -----------------------------
\* The backend alone: the controller is found in any state but MIT.
EXTENDS Backend

AnyStart == {a \in Arms : a.motion = "other"}
=============================================================================
