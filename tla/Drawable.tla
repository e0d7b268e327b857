------------------------------ MODULE Drawable ------------------------------
(***************************************************************************)
(* The process-wide table of X drawables, one for each window that was     *)
(* presented to, and the pointer into it that every presentation object    *)
(* keeps (present.c: get_d3d_drawable and its callers).                    *)
(*                                                                         *)
(* The table is read and written under context_section, which a caller of  *)
(* get_d3d_drawable keeps until it is done with the drawable: that part is *)
(* one step.  While a drawable is created the lock is free.  The offset of *)
(* a drawable in its window is left out.                                   *)
(***************************************************************************)
EXTENDS Integers, FiniteSets

CONSTANTS Presents, Windows, NoWindow

VARIABLES
  table,        \* d3d_hwnd_context: the windows that have an entry
  allocated,    \* drawables of a window in memory
  d3d,          \* This->d3d: its window, unless it was freed since
  getting,      \* the window a drawable is being created for, and the caller
  (* history *)
  shared        \* two presentation objects kept the same drawable, and not
                \* all drawables were given up since

drawableVars == <<table, allocated, d3d, getting, shared>>

NoDrawable == [wnd |-> NoWindow, freed |-> FALSE]
Freed == [wnd |-> NoWindow, freed |-> TRUE]
NoCall == [wnd |-> NoWindow, from |-> "none"]
Callers == {"PresentBuffer", "SetPresentParameters"}

DrawableTypeOK ==
  /\ table \subseteq Windows
  /\ allocated \in [Windows -> Nat]
  /\ d3d \in [Presents -> [wnd : Windows, freed : {FALSE}] \cup {NoDrawable, Freed}]
  /\ getting \in [Presents -> [wnd : Windows, from : Callers] \cup {NoCall}]
  /\ shared \in BOOLEAN

DrawableInit ==
  /\ table = {} /\ allocated = [w \in Windows |-> 0]
  /\ d3d = [p \in Presents |-> NoDrawable]
  /\ getting = [p \in Presents |-> NoCall]
  /\ shared = FALSE

\* destroy_d3dadapter_drawable for windows ws, with table t and pointers c:
\* pointers to the drawable are left as they are, but tell nothing any more.
Pointers(c, t, ws) ==
  [p \in Presents |-> IF c[p].wnd \in ws \cap t THEN Freed ELSE c[p]]
Allocated(a, t, ws) == [w \in Windows |-> IF w \in ws \cap t THEN a[w] - 1 ELSE a[w]]

\* The window of the drawable that p keeps; a freed one tells anything.
Told(p) == IF d3d[p].freed THEN Windows \cup {NoWindow} ELSE {d3d[p].wnd}

\* Mutant: the drawable is given up also when the window stays.
AlwaysReplaced(v, w) == {v} \ {NoWindow}

\* The windows whose drawable a presentation to w gives up after one to v.
Replaced(v, w) == {v} \ {NoWindow, w}

\* A presentation of p to window w, which has an entry in t.
PresentOn(p, w, t, a) ==
  \E v \in Told(p) :
    LET gone == Replaced(v, w)
    IN /\ table' = t \ gone
       /\ allocated' = Allocated(a, t, gone)
       /\ d3d' = [Pointers(d3d, t, gone) EXCEPT ![p] =
                    IF w \in gone THEN Freed ELSE [wnd |-> w, freed |-> FALSE]]
       /\ shared' = (shared \/ \E q \in Presents \ {p} : d3d[q].wnd = w)

\* What the caller of get_d3d_drawable does with it: a reset to fullscreen
\* sets properties of the X window, and keeps nothing.
Use(p, w, from, t, a) ==
  IF from = "PresentBuffer" THEN PresentOn(p, w, t, a)
  ELSE table' = t /\ allocated' = a /\ UNCHANGED <<d3d, shared>>

\* get_d3d_drawable: there is one, or it is created without the lock.
Get(p, w, from) ==
  /\ getting[p] = NoCall
  /\ IF w \in table THEN Use(p, w, from, table, allocated) /\ UNCHANGED getting
     ELSE /\ getting' = [getting EXCEPT ![p] = [wnd |-> w, from |-> from]]
          /\ UNCHANGED <<table, allocated, d3d, shared>>

\* Mutant: the one that came first is not looked for.
AddedBlindly(w) == <<table \cup {w}, [allocated EXCEPT ![w] = @ + 1]>>

\* The table and the memory once a drawable of w was created: a second one
\* is freed again.
Added(w) ==
  IF w \in table THEN <<table, allocated>>
  ELSE <<table \cup {w}, [allocated EXCEPT ![w] = @ + 1]>>

Created(p) ==
  /\ getting[p] # NoCall
  /\ LET g == getting[p] IN Use(p, g.wnd, g.from, Added(g.wnd)[1], Added(g.wnd)[2])
  /\ getting' = [getting EXCEPT ![p] = NoCall]

CreateFails(p) ==
  /\ getting[p] # NoCall
  /\ getting' = [getting EXCEPT ![p] = NoCall]
  /\ UNCHANGED <<table, allocated, d3d, shared>>

\* The part of DRIPresent_Release that gives up the drawable of p.
ReleaseDrawable(p) ==
  /\ \E v \in Told(p) :
       LET gone == {v} \ {NoWindow}
       IN /\ table' = table \ gone
          /\ allocated' = Allocated(allocated, table, gone)
          /\ d3d' = [Pointers(d3d, table, gone) EXCEPT ![p] = NoDrawable]
  /\ shared' = (shared /\ \E q \in Presents : d3d'[q] # NoDrawable)
  /\ UNCHANGED getting

---------------------------------------------------------------------------
\* Every drawable in memory is in the table, and each window has one at
\* most, however many threads create one for it at the same time.
DrawablesAccounted == \A w \in Windows : allocated[w] = IF w \in table THEN 1 ELSE 0

\* Nobody keeps a drawable that was freed, unless two presentation objects
\* came to share a window: PresentBuffer would read its window (1049),
\* GetWindowInfo its X drawable (1318).
NoFreedDrawable == ~shared => \A p \in Presents : ~d3d[p].freed
=============================================================================
