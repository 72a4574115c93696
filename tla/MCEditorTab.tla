---- MODULE MCEditorTab ----
(* A small editor tab: two texts, the first of them blank. *)
EXTENDS EditorTab
CONSTANTS t0, t1
MCTexts == {t0, t1}
====
