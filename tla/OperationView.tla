--------------------------- MODULE OperationView ---------------------------
(***************************************************************************)
(* What the monitoring window shows of each operation: the second loop of  *)
(* widget::update_view and operation_view::update_view, on top of the      *)
(* operation table of Monitor.  An item reads the flags of its slot in     *)
(* shared memory, while children and the window's own scan change them.    *)
(* What its constructor draws is drawn again in the same pass of the       *)
(* timer, before anything is painted.                                      *)
(***************************************************************************)
EXTENDS Monitor

VARIABLES
    drawing,    \* slot that the update loop is at, or Drawn
    icon,       \* icon of each slot's item
    ended       \* slots whose child has been through woo_end_operation

viewVars == <<drawing, icon, ended>>

Drawn == MaxOp

-----------------------------------------------------------------------------
\* operation_view::update_view: what the flags stand for.
IconFor(flags) ==
    CASE {"END", "TIMEOUT"} \subseteq flags -> "failure"
      [] "END" \in flags /\ "TIMEOUT" \notin flags -> "success"
      [] "END" \notin flags /\ "UPLOAD" \in flags -> "upload"
      [] OTHER -> "download"

\* One turn of the update loop; a slot without an item is passed over.
Draw ==
    /\ drawing # Drawn
    /\ icon' = [icon EXCEPT ![drawing] =
            IF drawing \in m_items THEN IconFor(oflags[drawing]) ELSE "none"]
    /\ drawing' = drawing + 1
    /\ UNCHANGED <<vars, ended>>

\* The loop that creates and deletes items is over: the update loop follows.
DrawNext == IF gpc = "view" /\ gpc' = "work" THEN 0 ELSE drawing

\* A child has ended its operation; an allocation begins a new one.
EndedNext ==
    {x \in Slots :
        \/ \E c \in Children : cpc[c] = "endstore" /\ cpc'[c] = "endblock" /\ opid[c] = x
        \/ x \in ended /\ ~\E c \in Children :
                            cpc[c] = "flag" /\ cpc'[c] = "post" /\ opid[c] = x}

\* The window does nothing else while it draws; children and time go on.
TableStep ==
    /\ Next
    /\ drawing # Drawn => gpc' = gpc
    /\ drawing' = DrawNext
    /\ ended' = EndedNext
    /\ UNCHANGED icon

ViewInit ==
    /\ Init
    /\ drawing = Drawn
    /\ icon = [x \in Slots |-> "none"]
    /\ ended = {}

ViewSpec ==
    /\ ViewInit /\ [][TableStep \/ Draw]_<<vars, viewVars>>
    /\ Fairness /\ WF_viewVars(Draw)

-----------------------------------------------------------------------------
(* Properties.                                                              *)

\* The icon of success (operation_view.cxx:176) is never drawn for an operation that has
\* not been ended by its own child: not for one that the window has timed out because its
\* child died or stalls, nor for a child that still transfers, nor for a new operation in
\* the slot of an old one.
SuccessHonest ==
    [][drawing' # drawing /\ drawing # Drawn /\ icon'[drawing] = "success"
         => drawing \in ended]_<<vars, viewVars>>

=============================================================================
