-------------------------- MODULE MCDeveloperLoop --------------------------
(* An instance of DeveloperLoop for TLC. *)
EXTENDS DeveloperLoop

Call(tool, valid, mode) == [tool |-> tool, valid |-> valid, mode |-> mode]

\* A read, a well-formed edit, an edit without content, a verifier run, and
\* a retrieve in each mode.
MCCalls == {Call("read_file", TRUE, "other"), Call("edit_file", TRUE, "other"),
            Call("edit_file", FALSE, "other"), Call("run_verifier", TRUE, "other")}
           \cup {Call("retrieve", TRUE, mode) : mode \in Modes}

\* Green, green without tests, a lint failure, a build failure.
MCResults == {AllPass,
              [AllPass EXCEPT !["tests"] = "skip"],
              [AllPass EXCEPT !["lint"] = "fail"],
              [AllPass EXCEPT !["build"] = "fail"]}
=============================================================================
