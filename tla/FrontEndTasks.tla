--------------------------- MODULE FrontEndTasks ---------------------------
(***************************************************************************)
(* What the modules of the front-end run share: one task is chosen, and    *)
(* the module it belongs to works on it.                                   *)
(***************************************************************************)
CONSTANT None

VARIABLES task,     \* the task at hand: of says which module it belongs to
          state     \* how far that module is with it

vars == <<task, state>>
=============================================================================
