---- MODULE MCNativeHistory ----
(* Two workers, a short interval of 1 and a cooldown of 3.                    *)
EXTENDS NativeHistory
====
