------------------------- MODULE MCTemplateCompiler -------------------------
(* TemplateCompiler for TLC: every short template.                          *)
EXTENDS TemplateCompiler

AllKinds == Greedy \cup StopTags \cup {"text", "eval", "link", "else", "elif"}
=============================================================================
