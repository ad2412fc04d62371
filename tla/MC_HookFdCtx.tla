---------------------------- MODULE MC_HookFdCtx ----------------------------
(* Model-checking instance of HookFdCtx: two fd numbers, enough for a      *)
(* socket beside a file, and for a number reused after close().            *)
EXTENDS HookFdCtx

MCFds == {3, 4}
====
