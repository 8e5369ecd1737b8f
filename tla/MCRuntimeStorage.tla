---- MODULE MCRuntimeStorage ----
(* Two processes, one or two of which crash, on a file of any version.        *)
EXTENDS RuntimeStorage
====
