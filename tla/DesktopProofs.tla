---------------------------- MODULE DesktopProofs ----------------------------
(***************************************************************************)
(* What a desktop application shows is right, for any constants: a dialog  *)
(* and its pages (Options), a view's columns (ItemView), the order of its  *)
(* rows (DisplayOrder), an output's lines (OutputPane), the presenters     *)
(* (Presenters), the GUI thread (UiThread), the window (Workbench) and its *)
(* layouts (Layouts).                                                      *)
(***************************************************************************)
EXTENDS Desktop, SequenceTheorems, FiniteSetTheorems, WellFoundedInduction, TLAPS

----------------------------------------------------------------------------
(* Options: pages are children of the dialog that is open, and of no other. *)

\* While apply() runs no page has a problem, and what it is about is open.
OptionsInv ==
    /\ dialog \in Nat /\ opens \in Nat /\ applying \in Seq(Pages)
    /\ edits \in [Pages -> {"none", "valid", "invalid"}]
    /\ parent = [p \in Pages |-> dialog] /\ listener = [p \in Pages |-> dialog]
    /\ alive = Pages
    /\ dialog = 0 => ~Dirty(edits)
    /\ applying # <<>> => dialog # 0 /\ ~Problem(edits)
    /\ Ready /\ ~stale => buttons = Buttons(edits)

LEMMA OptionsInitInv == OptionsInit => OptionsInv
BY DEF OptionsInit, OptionsInv, Dirty, Problem, Ready

\* A dialog that closes is nobody's parent any more when it is deleted.
LEMMA ClosingKeepsPages ==
    ASSUME OptionsInv, dialog # 0, Done
    PROVE  /\ dialog' = 0 /\ opens' = opens /\ alive' = Pages
           /\ parent' = [p \in Pages |-> dialog'] /\ listener' = [p \in Pages |-> dialog']
<1>1. Deleted = {}
    BY DEF Deleted, Released
<1> QED
    BY <1>1 DEF Done, Released, OptionsInv

LEMMA OpenDialogKeeps == OptionsInv /\ OpenDialog => OptionsInv'
<1> SUFFICES ASSUME OptionsInv, OpenDialog PROVE OptionsInv'
    OBVIOUS
<1>1. dialog' \in Nat /\ opens' \in Nat /\ dialog' # 0 /\ dialog' = opens'
    BY DEF OptionsInv, OpenDialog
<1>2. /\ parent' = [p \in Pages |-> dialog'] /\ listener' = [p \in Pages |-> dialog']
      /\ UNCHANGED <<edits, alive, applying, accepting>> /\ buttons' = Buttons(edits)
    BY <1>1 DEF OpenDialog
<1>3. applying = <<>>
    BY DEF OptionsInv, OpenDialog
<1> QED
    BY <1>1, <1>2, <1>3 DEF OptionsInv, Ready

LEMMA EditKeeps ==
    ASSUME OptionsInv, NEW p \in Pages, NEW e \in {"none", "valid", "invalid"}, Edit(p, e)
    PROVE  OptionsInv'
<1>1. edits' \in [Pages -> {"none", "valid", "invalid"}]
    BY DEF OptionsInv, Edit
<1>2. buttons' = Buttons(edits') /\ dialog # 0 /\ applying = <<>>
    BY DEF OptionsInv, Edit, Ready
<1> QED
    BY <1>1, <1>2 DEF OptionsInv, Edit, Ready, dialogState

LEMMA ApplyKeeps ==
    ASSUME OptionsInv, NEW ok \in BOOLEAN, Apply(ok) PROVE OptionsInv'
<1>1. applying' \in Seq(Pages)
    BY PagesAssumption DEF Apply
<1> QED
    BY <1>1 DEF OptionsInv, Apply, Ready, dialogState

LEMMA ApplyPageKeeps ==
    ASSUME OptionsInv, NEW works \in BOOLEAN, ApplyPage(works) PROVE OptionsInv'
<1> DEFINE page1 == Head(applying)
<1>1. page1 \in Pages /\ applying' \in Seq(Pages) /\ dialog # 0 /\ ~Problem(edits)
    BY HeadTailProperties DEF OptionsInv, ApplyPage
<1>2. edits' \in [Pages -> {"none", "valid", "invalid"}] /\ ~Problem(edits')
  <2>1. CASE edits[page1] # "none" /\ works
    <3>1. edits' = [edits EXCEPT ![page1] = "none"]
        BY <2>1 DEF ApplyPage
    <3> QED
        BY <1>1, <3>1 DEF OptionsInv, Problem
  <2>2. CASE ~(edits[page1] # "none" /\ works)
    <3>1. edits' = edits
        BY <2>2 DEF ApplyPage
    <3> QED
        BY <1>1, <3>1 DEF OptionsInv
  <2> QED
      BY <2>1, <2>2
<1>3. CASE applying' # <<>>
  <2>1. UNCHANGED <<dialogState, accepting, buttons, stale>>
      BY <1>3 DEF ApplyPage
  <2> QED
      BY <1>1, <1>2, <1>3, <2>1 DEF OptionsInv, dialogState, Ready
<1>4. CASE applying' = <<>>
  <2>1. buttons' = Buttons(edits')
      BY <1>4 DEF ApplyPage
  <2>2. CASE accepting /\ ~Dirty(edits')
    <3>1. Done
        BY <1>4, <2>2 DEF ApplyPage
    <3>2. /\ dialog' = 0 /\ opens' = opens /\ alive' = Pages
          /\ parent' = [p \in Pages |-> dialog'] /\ listener' = [p \in Pages |-> dialog']
        BY <1>1, <3>1, ClosingKeepsPages
    <3> QED
        BY <1>1, <1>2, <1>4, <2>1, <2>2, <3>2 DEF OptionsInv, Ready
  <2>3. CASE ~(accepting /\ ~Dirty(edits'))
    <3>1. UNCHANGED dialogState
        BY <1>4, <2>3 DEF ApplyPage
    <3> QED
        BY <1>1, <1>2, <1>4, <2>1, <3>1 DEF OptionsInv, dialogState, Ready
  <2> QED
      BY <2>2, <2>3
<1> QED
    BY <1>3, <1>4

LEMMA ApplyRaisesKeeps == OptionsInv /\ ApplyRaises => OptionsInv'
<1> SUFFICES ASSUME OptionsInv, ApplyRaises PROVE OptionsInv'
    OBVIOUS
<1>1. applying' \in Seq(Pages) /\ applying' = <<>> /\ stale'
    BY DEF ApplyRaises
<1> QED
    BY <1>1 DEF OptionsInv, ApplyRaises, dialogState, Ready

LEMMA RejectKeeps == OptionsInv /\ Reject => OptionsInv'
<1> SUFFICES ASSUME OptionsInv, Reject PROVE OptionsInv'
    OBVIOUS
<1>1. dialog # 0 /\ applying = <<>> /\ Done
    BY DEF Reject, Ready
<1>2. /\ dialog' = 0 /\ opens' = opens /\ alive' = Pages
      /\ parent' = [p \in Pages |-> dialog'] /\ listener' = [p \in Pages |-> dialog']
    BY <1>1, ClosingKeepsPages
<1>3. edits' \in [Pages -> {"none", "valid", "invalid"}] /\ ~Dirty(edits')
    BY DEF Reject, Dirty
<1> QED
    BY <1>1, <1>2, <1>3 DEF OptionsInv, Reject, Ready

LEMMA OptionsNextInv == OptionsInv /\ [OptionsNext]_optionsVars => OptionsInv'
<1> SUFFICES ASSUME OptionsInv, [OptionsNext]_optionsVars PROVE OptionsInv'
    OBVIOUS
<1>1. CASE UNCHANGED optionsVars
    BY <1>1 DEF optionsVars, dialogState, OptionsInv, Ready
<1>2. CASE OptionsNext
    BY <1>2, OpenDialogKeeps, EditKeeps, ApplyKeeps, ApplyPageKeeps, ApplyRaisesKeeps, RejectKeeps
    DEF OptionsNext
<1> QED
    BY <1>1, <1>2

\* Pages survive every dialog, and none closes on an edit that is left behind
\* (options_dialog.py).
THEOREM OptionsCorrect == OptionsSpec => []OptionsKept
<1>1. OptionsInv => OptionsKept
    BY DEF OptionsInv, OptionsKept
<1> QED
    BY <1>1, OptionsInitInv, OptionsNextInv, PTL DEF OptionsSpec

----------------------------------------------------------------------------
(* ItemView: each fit that may still overwrite a width has been accounted for. *)

\* Fits that have run or wait to are those of first rows, those that were waiting at
\* the reset, and one for the children.
Budgeted == lost + deferred <= refills + carried + (IF fitted THEN 1 ELSE 0)

\* The stretch column fills what the other one leaves, but shrinks to no less than its floor.
IsFilled ==
    displayed /\ ~dragged =>
        /\ stretch >= floor /\ other + stretch >= viewport
        /\ stretch = floor \/ other + stretch = viewport

ViewTypeInv ==
    /\ rows \in Nat /\ kids \in Nat /\ modelChanges \in Nat
    /\ deferred \in Nat /\ lost \in Nat /\ refills \in Nat /\ carried \in Nat
    /\ viewport \in Int /\ other \in Int /\ stretch \in Int /\ floor \in Int

ViewInv == ViewTypeInv /\ Budgeted /\ IsFilled

LEMMA ViewInitInv == ViewInit => ViewInv
BY WidthsAssumption DEF ViewInit, ViewInv, ViewTypeInv, Budgeted, IsFilled

LEMMA ContentWidthTyped == ContentWidth \in Int /\ ContentWidth' \in Int
BY DEF ContentWidth

\* Filling leaves no gap.
LEMMA FillingFills ==
    ASSUME NEW v \in Int, NEW o \in Int, NEW f \in Int, NEW s
    PROVE  /\ Filled(v, o, f, s) \in Int
           /\ s => /\ Filled(v, o, f, s) >= f /\ o + Filled(v, o, f, s) >= v
                   /\ Filled(v, o, f, s) = f \/ o + Filled(v, o, f, s) = v
BY DEF Filled

\* A fit measures both columns anew.
LEMMA FitFills ==
    ASSUME ViewTypeInv, NEW width \in Int, Fit(width), UNCHANGED <<viewport, displayed>>
    PROVE  other' \in Int /\ stretch' \in Int /\ floor' \in Int /\ IsFilled'
<1>1. other' = width /\ floor' = width /\ stretch' = Filled(viewport, width, width, displayed)
    BY DEF Fit
<1>2. viewport \in Int
    BY DEF ViewTypeInv
<1> QED
    BY <1>1, <1>2, FillingFills DEF IsFilled

LEMMA ResetKeeps ==
    ASSUME ViewInv, NEW n \in 0..1, NEW k \in 0..1, ResetModel(n, k) PROVE ViewInv'
<1>1. other' \in Int /\ stretch' \in Int /\ floor' \in Int /\ IsFilled'
    BY ContentWidthTyped, FitFills DEF ViewInv, ResetModel
<1>2. ViewTypeInv' /\ Budgeted'
    BY <1>1 DEF ViewInv, ViewTypeInv, Budgeted, ResetModel, Changed
<1> QED
    BY <1>1, <1>2 DEF ViewInv

LEMMA InsertTopKeeps ==
    ASSUME ViewInv, NEW k \in 0..1, InsertTop(k) PROVE ViewInv'
<1>1. CASE rows = 0
  <2>1. Fit(ContentWidth') /\ Overwrites /\ refills' = refills + 1
      BY <1>1 DEF InsertTop
  <2>2. other' \in Int /\ stretch' \in Int /\ floor' \in Int /\ IsFilled'
      BY <2>1, ContentWidthTyped, FitFills DEF ViewInv, InsertTop
  <2>3. ViewTypeInv' /\ Budgeted'
      BY <2>1, <2>2 DEF ViewInv, ViewTypeInv, Budgeted, InsertTop, Changed, Overwrites
  <2> QED
      BY <2>2, <2>3 DEF ViewInv
<1>2. CASE rows # 0
    BY <1>2 DEF ViewInv, ViewTypeInv, Budgeted, IsFilled, InsertTop, Changed, columns
<1> QED
    BY <1>1, <1>2

LEMMA FitOnceKeeps ==
    ASSUME ViewInv, FitChildrenOnce, UNCHANGED <<viewport, displayed, columns, widthHistory>>,
           rows' \in Nat, kids' \in Nat, modelChanges' \in Nat
    PROVE  ViewInv'
BY DEF ViewInv, ViewTypeInv, Budgeted, IsFilled, FitChildrenOnce, Once, columns, widthHistory

LEMMA DeferredKeeps == ViewInv /\ RunDeferred => ViewInv'
<1> SUFFICES ASSUME ViewInv, RunDeferred PROVE ViewInv'
    OBVIOUS
<1>1. other' \in Int /\ stretch' \in Int /\ floor' \in Int /\ IsFilled'
    BY ContentWidthTyped, FitFills DEF ViewInv, RunDeferred
<1>2. ViewTypeInv' /\ Budgeted'
    BY <1>1 DEF ViewInv, ViewTypeInv, Budgeted, RunDeferred, model, Overwrites
<1> QED
    BY <1>1, <1>2 DEF ViewInv

LEMMA DragKeeps ==
    ASSUME ViewInv, NEW w \in Widths, DragOther(w) \/ DragStretch(w) PROVE ViewInv'
<1>1. w \in Int
    BY WidthsAssumption
<1>2. CASE DragOther(w)
  <2>1. stretch' \in Int /\ IsFilled'
      BY <1>1, <1>2, FillingFills DEF ViewInv, ViewTypeInv, IsFilled, DragOther
  <2> QED
      BY <1>1, <1>2, <2>1 DEF ViewInv, ViewTypeInv, Budgeted, DragOther, model, widthHistory
<1>3. CASE DragStretch(w)
    BY <1>1, <1>3 DEF ViewInv, ViewTypeInv, Budgeted, IsFilled, DragStretch, model, widthHistory
<1> QED
    BY <1>2, <1>3

LEMMA ResizeKeeps ==
    ASSUME ViewInv, NEW v \in Widths, NEW s, ResizeView(v, s) PROVE ViewInv'
<1>1. v \in Int
    BY WidthsAssumption
<1>2. stretch' \in Int /\ IsFilled'
    BY <1>1, FillingFills DEF ViewInv, ViewTypeInv, IsFilled, ResizeView
<1> QED
    BY <1>1, <1>2 DEF ViewInv, ViewTypeInv, Budgeted, ResizeView, model, widthHistory

LEMMA ViewNextInv == ViewInv /\ [ViewNext]_viewVars => ViewInv'
<1> SUFFICES ASSUME ViewInv, [ViewNext]_viewVars PROVE ViewInv'
    OBVIOUS
<1> USE DEF ViewInv, ViewTypeInv, Budgeted, IsFilled
<1>1. CASE UNCHANGED viewVars
    BY <1>1 DEF viewVars, model, columns, widthHistory
<1>2. CASE InsertKid
    BY <1>2, FitOnceKeeps DEF InsertKid, Changed
<1>3. CASE Expand
    BY <1>3, FitOnceKeeps DEF Expand
<1>4. CASE Collapse \/ RemoveAll \/ Hide
    BY <1>4 DEF Collapse, RemoveAll, Hide, Changed, model, columns, widthHistory
<1> QED
    BY <1>1, <1>2, <1>3, <1>4, ResetKeeps, InsertTopKeeps, DeferredKeeps, DragKeeps, ResizeKeeps DEF ViewNext

\* A width that a person set is overwritten no more often than it must be, and the
\* stretch column leaves no gap (configure_item_view.py).
THEOREM ViewCorrect == ViewSpec => []ViewKept
<1>1. ViewInv => ViewKept
    BY DEF ViewInv, ViewTypeInv, Budgeted, IsFilled, ViewKept
<1> QED
    BY <1>1, ViewInitInv, ViewNextInv, PTL DEF ViewSpec

----------------------------------------------------------------------------
LEMMA AppendedAt ==
    ASSUME NEW S, NEW s \in Seq(S), NEW x \in S
    PROVE  /\ Append(s, x) \in Seq(S) /\ Len(s) \in Nat /\ Len(Append(s, x)) = Len(s) + 1
           /\ \A i \in 1..Len(s) : Append(s, x)[i] = s[i]
           /\ Append(s, x)[Len(s) + 1] = x
    OBVIOUS

LEMMA TailAt ==
    ASSUME NEW S, NEW s \in Seq(S), s # <<>>
    PROVE  /\ Tail(s) \in Seq(S) /\ Len(s) \in Nat \ {0} /\ Len(Tail(s)) = Len(s) - 1
           /\ \A i \in 1..Len(s) - 1 : Tail(s)[i] = s[i + 1]
           /\ Head(s) = s[1] /\ Head(s) \in S
    OBVIOUS

----------------------------------------------------------------------------
(* OutputPane: each channel's lines, and which of them the person chose. *)

Chans == ToSet(Channels)

\* The lines b are the newest of those in g, appended since line l, and not more than fit.
Newest(b, g, l, last) ==
    /\ b \in Seq(Nat) /\ Len(b) <= MaxEntries
    /\ last \in Nat /\ l \in 0..last /\ g \subseteq 1..last
    /\ \A i \in 1..Len(b) : b[i] \in g /\ b[i] > l
    /\ \A i, j \in 1..Len(b) : i < j => b[i] < b[j]
    /\ \A n \in g : n > l => \/ \E i \in 1..Len(b) : b[i] = n
                             \/ Len(b) = MaxEntries /\ \A i \in 1..Len(b) : n < b[i]

\* The lines of the rows in s.
LinesAt(b, s) == {b[r] : r \in s}

\* What is on the clipboard is what was meant, in order.
CopiedInv ==
    /\ {clipboard[r] : r \in DOMAIN clipboard} = meant
    /\ \A q, r \in DOMAIN clipboard : q < r => clipboard[q] < clipboard[r]

OutputInv ==
    /\ lastLine \in Nat /\ channel \in Chans
    /\ buffer = [c \in Chans |-> buffer[c]] /\ cleared = [c \in Chans |-> cleared[c]]
    /\ given = [c \in Chans |-> given[c]]
    /\ \A c \in Chans : Newest(buffer[c], given[c], cleared[c], lastLine)
    /\ selected \subseteq 1..Len(buffer[channel]) /\ picked = LinesAt(buffer[channel], selected)
    /\ CopiedInv

LEMMA OutputInitInv == OutputInit => OutputInv
<1> SUFFICES ASSUME OutputInit PROVE OutputInv
    OBVIOUS
<1>1. channel \in Chans
    BY ChannelsAssumption DEF OutputInit, Chans, ToSet
<1>2. \A c \in Chans : Newest(buffer[c], given[c], cleared[c], lastLine)
    BY EntriesAssumption DEF OutputInit, Newest, Chans
<1> QED
    BY <1>1, <1>2 DEF OutputInit, OutputInv, CopiedInv, LinesAt, Chans

\* A line that comes is the newest; when the channel is full, the oldest one goes.
LEMMA LineAdded ==
    ASSUME NEW b, NEW g, NEW l, NEW last, Newest(b, g, l, last)
    PROVE  Newest(Append(IF Len(b) >= MaxEntries THEN Tail(b) ELSE b, last + 1), g \cup {last + 1}, l, last + 1)
<1> DEFINE room == IF Len(b) >= MaxEntries THEN Tail(b) ELSE b
           n1 == last + 1
           b1 == Append(room, n1)
           g1 == g \cup {n1}
<1>1. b \in Seq(Nat) /\ last \in Nat /\ n1 \in Nat /\ l \in 0..last /\ g \subseteq 1..last
    BY DEF Newest
<1>2. \A i \in 1..Len(b) : b[i] \in g /\ b[i] > l /\ b[i] \in Nat /\ b[i] < n1
    BY <1>1 DEF Newest
<1>3. CASE Len(b) >= MaxEntries
  <2>1. Len(b) = MaxEntries /\ b # <<>> /\ room = Tail(b)
      BY <1>1, <1>3, EntriesAssumption DEF Newest
  <2>2. /\ room \in Seq(Nat) /\ Len(room) = Len(b) - 1 /\ Len(b) \in Nat \ {0}
        /\ \A i \in 1..Len(b) - 1 : room[i] = b[i + 1]
      BY <1>1, <2>1, TailAt
  <2>3. /\ b1 \in Seq(Nat) /\ Len(b1) = Len(b) /\ b1[Len(b)] = n1
        /\ \A i \in 1..Len(b) - 1 : b1[i] = b[i + 1]
    <3> HIDE DEF room
    <3> QED
        BY <1>1, <2>2, AppendedAt
  <2> HIDE DEF room, b1
  <2>4. \A i \in 1..Len(b1) : b1[i] \in g1 /\ b1[i] > l
    <3> SUFFICES ASSUME NEW i \in 1..Len(b1) PROVE b1[i] \in g1 /\ b1[i] > l
        OBVIOUS
    <3>1. CASE i = Len(b)
        BY <1>1, <2>3, <3>1
    <3>2. CASE i # Len(b)
      <4>1. i \in 1..Len(b) - 1 /\ b1[i] = b[i + 1] /\ i + 1 \in 1..Len(b)
          BY <2>2, <2>3, <3>2
      <4> QED
          BY <1>2, <4>1
    <3> QED
        BY <3>1, <3>2
  <2>5. \A i, j \in 1..Len(b1) : i < j => b1[i] < b1[j]
    <3> SUFFICES ASSUME NEW i \in 1..Len(b1), NEW j \in 1..Len(b1), i < j PROVE b1[i] < b1[j]
        OBVIOUS
    <3>1. i \in 1..Len(b) - 1 /\ b1[i] = b[i + 1] /\ i + 1 \in 1..Len(b)
      <4>1. i \in 1..Len(b) - 1 /\ i + 1 \in 1..Len(b)
        <5>1. Len(b) \in Nat /\ i \in 1..Len(b) /\ j \in 1..Len(b)
            BY <2>2, <2>3
        <5> QED
            BY <5>1
      <4> QED
          BY <2>3, <4>1
    <3>2. CASE j = Len(b)
        BY <1>2, <2>3, <3>1, <3>2
    <3>3. CASE j # Len(b)
      <4>1. b1[j] = b[j + 1] /\ j + 1 \in 1..Len(b) /\ i + 1 < j + 1
        <5>1. Len(b) \in Nat /\ i \in 1..Len(b) /\ j \in 1..Len(b)
            BY <2>2, <2>3
        <5>2. j \in 1..Len(b) - 1 /\ j + 1 \in 1..Len(b) /\ i + 1 < j + 1
            BY <3>3, <5>1
        <5> QED
            BY <2>3, <5>2
      <4> QED
          BY <3>1, <4>1 DEF Newest
    <3> QED
        BY <3>2, <3>3
  <2>6. ASSUME NEW n \in g1, n > l
        PROVE  \/ \E i \in 1..Len(b1) : b1[i] = n
               \/ Len(b1) = MaxEntries /\ \A i \in 1..Len(b1) : n < b1[i]
    <3>1. CASE n = n1
        BY <2>2, <2>3, <3>1
    <3>2. CASE n \in g /\ \E i \in 2..Len(b) : b[i] = n
      <4>1. PICK i \in 2..Len(b) : b[i] = n
          BY <3>2
      <4>2. i - 1 \in 1..Len(b) - 1 /\ b1[i - 1] = b[(i - 1) + 1] /\ (i - 1) + 1 = i
          BY <2>2, <2>3
      <4>3. b1[i - 1] = n /\ i - 1 \in 1..Len(b1)
          BY <2>2, <2>3, <4>1, <4>2
      <4> QED
          BY <4>3
    <3>3. CASE n \in g /\ (n = b[1] \/ \A i \in 1..Len(b) : n < b[i])
      <4>1. \A i \in 1..Len(b) - 1 : n < b[i + 1]
        <5> SUFFICES ASSUME NEW i \in 1..Len(b) - 1 PROVE n < b[i + 1]
            OBVIOUS
        <5>1. i + 1 \in 1..Len(b) /\ 1 \in 1..Len(b) /\ 1 < i + 1
            BY <2>2
        <5>2. b[1] < b[i + 1]
            BY <5>1 DEF Newest
        <5> QED
            BY <3>3, <5>1, <5>2
      <4>2. n < n1
          BY <1>1, <3>3
      <4>3. \A i \in 1..Len(b1) : i = Len(b) \/ i \in 1..Len(b) - 1
          BY <2>2, <2>3
      <4> QED
          BY <2>1, <2>3, <4>1, <4>2, <4>3
    <3>4. n = n1 \/ n \in g
        OBVIOUS
    <3>5. n \in g => (\E i \in 1..Len(b) : b[i] = n) \/ \A i \in 1..Len(b) : n < b[i]
        BY <2>6 DEF Newest
    <3>6. \A i \in 1..Len(b) : i = 1 \/ i \in 2..Len(b)
        BY <2>2
    <3> QED
        BY <3>1, <3>2, <3>3, <3>4, <3>5, <3>6
  <2>7. l \in 0..n1 /\ g1 \subseteq 1..n1 /\ Len(b1) <= MaxEntries
      BY <1>1, <2>1, <2>3, EntriesAssumption
  <2>8. Newest(b1, g1, l, n1)
      BY <1>1, <2>3, <2>4, <2>5, <2>6, <2>7 DEF Newest
  <2> QED
      BY <2>8 DEF b1, room
<1>4. CASE ~ (Len(b) >= MaxEntries)
  <2>1. room = b /\ Len(b) \in Nat
      BY <1>1, <1>4
  <2>2. /\ b1 \in Seq(Nat) /\ Len(b1) = Len(b) + 1 /\ b1[Len(b) + 1] = n1
        /\ \A i \in 1..Len(b) : b1[i] = b[i]
    <3> HIDE DEF room
    <3> QED
        BY <1>1, <2>1, AppendedAt
  <2> HIDE DEF room, b1
  <2>3. \A i \in 1..Len(b1) : i = Len(b) + 1 \/ i \in 1..Len(b)
      BY <2>1, <2>2
  <2>4. \A i \in 1..Len(b1) : b1[i] \in g1 /\ b1[i] > l
    <3>1. \A i \in 1..Len(b) : b1[i] \in g1 /\ b1[i] > l
        BY <1>2, <2>2
    <3>2. b1[Len(b) + 1] \in g1 /\ b1[Len(b) + 1] > l
        BY <1>1, <2>2
    <3> QED
        BY <2>3, <3>1, <3>2
  <2>5. \A i, j \in 1..Len(b1) : i < j => b1[i] < b1[j]
    <3> SUFFICES ASSUME NEW i \in 1..Len(b1), NEW j \in 1..Len(b1), i < j PROVE b1[i] < b1[j]
        OBVIOUS
    <3>1. i \in 1..Len(b) /\ b1[i] = b[i]
        BY <2>1, <2>2
    <3>2. CASE j = Len(b) + 1
        BY <1>2, <2>2, <3>1, <3>2
    <3>3. CASE j \in 1..Len(b)
        BY <2>2, <3>1, <3>3 DEF Newest
    <3> QED
        BY <2>3, <3>2, <3>3
  <2>6. \A n \in g1 : n > l => \E i \in 1..Len(b1) : b1[i] = n
    <3> SUFFICES ASSUME NEW n \in g1, n > l PROVE \E i \in 1..Len(b1) : b1[i] = n
        OBVIOUS
    <3>1. CASE n = n1
        BY <2>1, <2>2, <3>1
    <3>2. CASE n \in g
      <4>1. Len(b) # MaxEntries
          BY <1>4, <2>1, EntriesAssumption
      <4>2. PICK i \in 1..Len(b) : b[i] = n
          BY <3>2, <4>1 DEF Newest
      <4>3. i \in 1..Len(b1) /\ b1[i] = n
          BY <2>1, <2>2, <4>2
      <4> QED
          BY <4>3
    <3> QED
        BY <3>1, <3>2
  <2>7. l \in 0..n1 /\ g1 \subseteq 1..n1 /\ Len(b1) <= MaxEntries
      BY <1>1, <1>4, <2>1, <2>2, EntriesAssumption
  <2>8. Newest(b1, g1, l, n1)
      BY <1>1, <2>2, <2>4, <2>5, <2>6, <2>7 DEF Newest
  <2> QED
      BY <2>8 DEF b1, room
<1> QED
    BY <1>3, <1>4

\* A line of another channel changes nothing.
LEMMA LaterIsNewest ==
    ASSUME NEW b, NEW g, NEW l, NEW last, Newest(b, g, l, last)
    PROVE  Newest(b, g, l, last + 1)
<1>1. last \in Nat /\ last + 1 \in Nat /\ l \in 0..last + 1 /\ g \subseteq 1..last + 1
    BY DEF Newest
<1> QED
    BY <1>1 DEF Newest

\* As the first row goes, the rows chosen move up, and stay on their lines.
LEMMA RowsMoveUp ==
    ASSUME NEW b \in Seq(Nat), NEW x \in Nat, NEW s \in SUBSET (1..Len(b)), b # <<>>,
           \A i, j \in 1..Len(b) : i < j => b[i] < b[j]
    PROVE  LET up == {r - 1 : r \in s \ {1}} IN
           /\ up \subseteq 1..Len(b) - 1
           /\ LinesAt(Append(Tail(b), x), up) = LinesAt(b, s) \ {Head(b)}
<1> DEFINE up == {r - 1 : r \in s \ {1}}
           b1 == Append(Tail(b), x)
<1>1. /\ Tail(b) \in Seq(Nat) /\ Len(b) \in Nat \ {0} /\ Len(Tail(b)) = Len(b) - 1
      /\ \A i \in 1..Len(b) - 1 : Tail(b)[i] = b[i + 1]
      /\ Head(b) = b[1]
    BY TailAt
<1>2. \A i \in 1..Len(b) - 1 : b1[i] = b[i + 1]
    BY <1>1, AppendedAt
<1> HIDE DEF b1
<1>3. up \subseteq 1..Len(b) - 1
    BY <1>1
<1>4. ASSUME NEW n \in LinesAt(b1, up) PROVE n \in LinesAt(b, s) \ {Head(b)}
  <2>1. PICK r \in s \ {1} : n = b1[r - 1]
      BY <1>4 DEF LinesAt
  <2>2. r - 1 \in 1..Len(b) - 1 /\ (r - 1) + 1 = r /\ 1 \in 1..Len(b) /\ r \in 1..Len(b) /\ 1 < r
      BY <1>1
  <2>3. n = b[r]
      BY <1>2, <2>1, <2>2
  <2>4. b[1] < b[r] /\ b[1] \in Nat /\ b[r] \in Nat
      BY <2>2
  <2> QED
      BY <1>1, <2>3, <2>4 DEF LinesAt
<1>5. ASSUME NEW n \in LinesAt(b, s) \ {Head(b)} PROVE n \in LinesAt(b1, up)
  <2>1. PICK r \in s : n = b[r]
      BY <1>5 DEF LinesAt
  <2>2. r # 1
      BY <1>1, <1>5, <2>1
  <2>3. r - 1 \in 1..Len(b) - 1 /\ (r - 1) + 1 = r /\ r - 1 \in up
      BY <1>1, <2>2
  <2>4. n = b1[r - 1]
      BY <1>2, <2>1, <2>3
  <2> QED
      BY <2>3, <2>4 DEF LinesAt
<1>6. LinesAt(b1, up) = LinesAt(b, s) \ {Head(b)}
    BY <1>4, <1>5
<1> QED
    BY <1>3, <1>6 DEF b1

\* While there is room, rows stay where they are.
LEMMA RowsStay ==
    ASSUME NEW b \in Seq(Nat), NEW x \in Nat, NEW s \in SUBSET (1..Len(b))
    PROVE  /\ s \subseteq 1..Len(Append(b, x)) /\ LinesAt(Append(b, x), s) = LinesAt(b, s)
<1> DEFINE b1 == Append(b, x)
<1>1. Len(b) \in Nat /\ Len(b1) = Len(b) + 1 /\ \A i \in 1..Len(b) : b1[i] = b[i]
    BY AppendedAt
<1> HIDE DEF b1
<1>2. LinesAt(b1, s) = LinesAt(b, s) /\ s \subseteq 1..Len(b1)
    BY <1>1 DEF LinesAt
<1> QED
    BY <1>2 DEF b1

LEMMA AppendLineKeeps ==
    ASSUME OutputInv, NEW c \in Chans, AppendLine(c) PROVE OutputInv'
<1> DEFINE b == buffer[c]
           n1 == lastLine + 1
           b1 == Append(IF Full(c) THEN Tail(b) ELSE b, n1)
<1>1. /\ lastLine' = n1 /\ buffer' = [buffer EXCEPT ![c] = b1]
      /\ given' = [given EXCEPT ![c] = @ \cup {n1}]
      /\ UNCHANGED <<channel, clipboard, cleared, meant>>
    BY DEF AppendLine
<1>2. /\ lastLine' \in Nat /\ channel' \in Chans /\ b \in Seq(Nat) /\ n1 \in Nat
      /\ buffer' = [d \in Chans |-> buffer'[d]] /\ cleared' = [d \in Chans |-> cleared'[d]]
      /\ given' = [d \in Chans |-> given'[d]]
  <2>1. lastLine \in Nat /\ channel \in Chans /\ Newest(b, given[c], cleared[c], lastLine)
      BY DEF OutputInv
  <2>2. b \in Seq(Nat)
      BY <2>1 DEF Newest
  <2> HIDE DEF b1
  <2>3. /\ buffer' = [d \in Chans |-> buffer'[d]] /\ cleared' = [d \in Chans |-> cleared'[d]]
        /\ given' = [d \in Chans |-> given'[d]]
      BY <1>1 DEF OutputInv
  <2> QED
      BY <1>1, <2>1, <2>2, <2>3
<1>3. ASSUME NEW d \in Chans PROVE Newest(buffer'[d], given'[d], cleared'[d], lastLine')
  <2>1. Newest(buffer[d], given[d], cleared[d], lastLine)
      BY DEF OutputInv
  <2>2. CASE d = c
    <3>1. buffer'[d] = b1 /\ given'[d] = given[c] \cup {n1} /\ cleared'[d] = cleared[c]
        BY <1>1, <2>2 DEF OutputInv
    <3>2. Newest(b1, given[c] \cup {n1}, cleared[c], n1)
        BY <2>1, <2>2, LineAdded DEF Full
    <3> QED
        BY <1>1, <3>1, <3>2
  <2>3. CASE d # c
    <3>1. buffer'[d] = buffer[d] /\ given'[d] = given[d] /\ cleared'[d] = cleared[d]
        BY <1>1, <2>3 DEF OutputInv
    <3> QED
        BY <1>1, <2>1, <3>1, LaterIsNewest
  <2> QED
      BY <2>2, <2>3
<1>4. selected' \subseteq 1..Len(buffer'[channel']) /\ picked' = LinesAt(buffer'[channel'], selected')
  <2>1. CASE c # channel
    <3>1. buffer'[channel'] = buffer[channel] /\ selected' = selected /\ picked' = picked
        BY <1>1, <2>1 DEF OutputInv, AppendLine, Trimmed
    <3> QED
        BY <3>1 DEF OutputInv
  <2>2. CASE c = channel
    <3>1. buffer'[channel'] = b1
        BY <1>1, <2>2 DEF OutputInv
    <3>2. selected \in SUBSET (1..Len(b)) /\ picked = LinesAt(b, selected)
        BY <2>2 DEF OutputInv
    <3>3. CASE Full(c)
      <4>1. /\ selected' = {r - 1 : r \in selected \ {1}} /\ picked' = picked \ {Head(b)}
            /\ b1 = Append(Tail(b), n1)
          BY <2>2, <3>3 DEF AppendLine, Trimmed
      <4>2. b # <<>> /\ \A i, j \in 1..Len(b) : i < j => b[i] < b[j]
        <5>1. Newest(b, given[c], cleared[c], lastLine)
            BY DEF OutputInv
        <5> QED
            BY <3>3, <5>1, EntriesAssumption DEF Full, Newest
      <4>3. selected' \subseteq 1..Len(b) - 1 /\ LinesAt(Append(Tail(b), n1), selected') = LinesAt(b, selected) \ {Head(b)}
          BY <1>2, <3>2, <4>1, <4>2, RowsMoveUp
      <4>4. Len(Append(Tail(b), n1)) = Len(b) /\ Len(b) \in Nat
          BY <1>2, <4>2, TailAt, AppendedAt
      <4>5. selected' \subseteq 1..Len(b1)
          BY <4>1, <4>3, <4>4
      <4> QED
          BY <3>1, <3>2, <4>1, <4>3, <4>5
    <3>4. CASE ~Full(c)
      <4>1. selected' = selected /\ picked' = picked /\ b1 = Append(b, n1)
          BY <3>4 DEF AppendLine
      <4>2. selected \subseteq 1..Len(Append(b, n1)) /\ LinesAt(Append(b, n1), selected) = LinesAt(b, selected)
          BY <1>2, <3>2, RowsStay
      <4> QED
          BY <3>1, <3>2, <4>1, <4>2
    <3> QED
        BY <3>3, <3>4
  <2> QED
      BY <2>1, <2>2
<1>5. CopiedInv'
    BY <1>1 DEF OutputInv, CopiedInv
<1> QED
    BY <1>1, <1>2, <1>3, <1>4, <1>5 DEF OutputInv

LEMMA ClearKeeps ==
    ASSUME OutputInv, NEW c \in Chans, Clear(c) PROVE OutputInv'
<1>1. /\ buffer' = [buffer EXCEPT ![c] = <<>>] /\ cleared' = [cleared EXCEPT ![c] = lastLine]
      /\ UNCHANGED <<channel, clipboard, lastLine, given, meant>>
    BY DEF Clear
<1>2. ASSUME NEW d \in Chans PROVE Newest(buffer'[d], given'[d], cleared'[d], lastLine')
  <2>1. Newest(buffer[d], given[d], cleared[d], lastLine)
      BY DEF OutputInv
  <2>2. CASE d = c
    <3>1. buffer'[d] = <<>> /\ given'[d] = given[d] /\ cleared'[d] = lastLine
        BY <1>1, <2>2 DEF OutputInv
    <3>2. \A n \in given[d] : ~ (n > lastLine)
        BY <2>1 DEF Newest
    <3>3. /\ lastLine \in Nat /\ given[d] \subseteq 1..lastLine /\ lastLine \in 0..lastLine
          /\ Len(<<>>) <= MaxEntries /\ <<>> \in Seq(Nat)
        BY <2>1, EntriesAssumption DEF Newest
    <3>4. Newest(<<>>, given[d], lastLine, lastLine)
        BY <3>2, <3>3 DEF Newest
    <3> QED
        BY <1>1, <3>1, <3>4
  <2>3. CASE d # c
      BY <1>1, <2>1, <2>3 DEF OutputInv
  <2> QED
      BY <2>2, <2>3
<1>3. selected' \subseteq 1..Len(buffer'[channel']) /\ picked' = LinesAt(buffer'[channel'], selected')
  <2>1. CASE c = channel
    <3>1. selected' = {} /\ picked' = {}
        BY <2>1 DEF Clear
    <3> QED
        BY <3>1 DEF LinesAt
  <2>2. CASE c # channel
    <3>1. selected' = selected /\ picked' = picked /\ buffer'[channel'] = buffer[channel]
        BY <1>1, <2>2 DEF Clear, OutputInv
    <3> QED
        BY <3>1 DEF OutputInv
  <2> QED
      BY <2>1, <2>2
<1>4. /\ buffer' = [d \in Chans |-> buffer'[d]] /\ cleared' = [d \in Chans |-> cleared'[d]]
      /\ given' = [d \in Chans |-> given'[d]] /\ lastLine' \in Nat /\ channel' \in Chans
    BY <1>1 DEF OutputInv
<1>5. CopiedInv'
    BY <1>1 DEF OutputInv, CopiedInv
<1> QED
    BY <1>1, <1>2, <1>3, <1>4, <1>5 DEF OutputInv

\* What is chosen, or shown, is of the channel that shows.
LEMMA ChoosingKeeps ==
    ASSUME OutputInv, UNCHANGED <<buffer, clipboard, lastLine, cleared, given, meant>>,
           channel' \in Chans, selected' \subseteq 1..Len(buffer[channel']),
           picked' = LinesAt(buffer[channel'], selected')
    PROVE  OutputInv'
BY DEF OutputInv, CopiedInv

\* The rows chosen, or all, in their order.
LEMMA CopyKeeps == OutputInv /\ CopyLines => OutputInv'
<1> SUFFICES ASSUME OutputInv, CopyLines PROVE OutputInv'
    OBVIOUS
<1> DEFINE b == buffer[channel]
           chosen == IF selected = {} THEN 1..Len(b) ELSE selected
<1>1. Newest(b, given[channel], cleared[channel], lastLine)
    BY DEF OutputInv
<1>2. b \in Seq(Nat) /\ DOMAIN b = 1..Len(b) /\ chosen \subseteq 1..Len(b)
    BY <1>1 DEF Newest, OutputInv
<1>3. clipboard' = [r \in chosen |-> b[r]]
    BY <1>2 DEF CopyLines
<1>4. meant' = LinesAt(b, chosen)
  <2>1. picked = LinesAt(b, selected) /\ (picked = {} <=> selected = {})
      BY DEF OutputInv, LinesAt
  <2>2. ToSet(b) = LinesAt(b, 1..Len(b))
      BY <1>2 DEF ToSet, LinesAt
  <2> QED
      BY <2>1, <2>2 DEF CopyLines
<1>5. DOMAIN clipboard' = chosen /\ \A r \in chosen : clipboard'[r] = b[r]
    BY <1>3
<1>6. {clipboard'[r] : r \in DOMAIN clipboard'} = meant'
    BY <1>4, <1>5 DEF LinesAt
<1>7. \A q, r \in DOMAIN clipboard' : q < r => clipboard'[q] < clipboard'[r]
  <2> HIDE DEF chosen
  <2> QED
      BY <1>1, <1>2, <1>5 DEF Newest
<1>8. UNCHANGED <<buffer, channel, selected, lastLine, cleared, given, picked>>
    BY DEF CopyLines
<1> QED
    BY <1>6, <1>7, <1>8 DEF OutputInv, CopiedInv

LEMMA OutputNextInv == OutputInv /\ [OutputNext]_outputVars => OutputInv'
<1> SUFFICES ASSUME OutputInv, [OutputNext]_outputVars PROVE OutputInv'
    OBVIOUS
<1>1. CASE UNCHANGED outputVars
    BY <1>1 DEF outputVars, outputHistory, OutputInv, CopiedInv
<1>2. DOMAIN buffer = Chans
    BY DEF OutputInv
<1>3. ASSUME NEW c \in Chans, ShowIndex(c) PROVE OutputInv'
  <2>1. channel' = c /\ selected' = {} /\ picked' = {}
      BY <1>3 DEF ShowIndex
  <2>2. UNCHANGED <<buffer, clipboard, lastLine, cleared, given, meant>>
      BY <1>3 DEF ShowIndex
  <2>3. picked' = LinesAt(buffer[channel'], selected')
      BY <2>1 DEF LinesAt
  <2> QED
      BY <2>1, <2>2, <2>3, ChoosingKeeps
<1>4. ASSUME NEW chosen \in SUBSET DOMAIN buffer[channel], Select(chosen) PROVE OutputInv'
  <2>1. DOMAIN buffer[channel] = 1..Len(buffer[channel])
    <3>1. Newest(buffer[channel], given[channel], cleared[channel], lastLine)
        BY DEF OutputInv
    <3> QED
        BY <3>1 DEF Newest
  <2>2. channel' = channel /\ selected' = chosen /\ picked' = LinesAt(buffer[channel], chosen)
      BY <1>4 DEF Select, LinesAt
  <2>3. UNCHANGED <<buffer, clipboard, lastLine, cleared, given, meant>> /\ channel' \in Chans
      BY <1>4 DEF Select, OutputInv
  <2>4. picked' = LinesAt(buffer[channel'], selected') /\ selected' \subseteq 1..Len(buffer[channel'])
      BY <2>1, <2>2
  <2> QED
      BY <2>3, <2>4, ChoosingKeeps
<1>5. CASE OutputNext
    BY <1>2, <1>3, <1>4, <1>5, AppendLineKeeps, ClearKeeps, CopyKeeps DEF OutputNext
<1> QED
    BY <1>1, <1>5

LEMMA OutputIsKept == OutputInv => OutputKept
<1> SUFFICES ASSUME OutputInv PROVE OutputKept
    OBVIOUS
<1>1. ASSUME NEW c \in DOMAIN buffer
      PROVE  LET since == {n \in given[c] : n > cleared[c]} IN
             /\ Len(buffer[c]) <= MaxEntries
             /\ \A i, j \in DOMAIN buffer[c] : i < j => buffer[c][i] < buffer[c][j]
             /\ ToSet(buffer[c]) \subseteq since
             /\ Len(buffer[c]) < MaxEntries => ToSet(buffer[c]) = since
             /\ \A n \in since \ ToSet(buffer[c]) : \A m \in ToSet(buffer[c]) : n < m
  <2> DEFINE b == buffer[c]
             since == {n \in given[c] : n > cleared[c]}
  <2>1. Newest(b, given[c], cleared[c], lastLine)
      BY DEF OutputInv
  <2>2. b \in Seq(Nat) /\ DOMAIN b = 1..Len(b) /\ Len(b) <= MaxEntries /\ Len(b) \in Nat
      BY <2>1 DEF Newest
  <2>3. ToSet(b) = {b[i] : i \in 1..Len(b)}
      BY <2>2 DEF ToSet
  <2>4. ToSet(b) \subseteq since
      BY <2>1, <2>3 DEF Newest
  <2>5. \A n \in since : n \in ToSet(b) \/ (Len(b) = MaxEntries /\ \A i \in 1..Len(b) : n < b[i])
      BY <2>1, <2>3 DEF Newest
  <2>6. ASSUME Len(b) < MaxEntries PROVE since \subseteq ToSet(b)
    <3> HIDE DEF since, b
    <3>1. Len(b) # MaxEntries
      <4>1. MaxEntries \in Int /\ Len(b) \in Int
          BY <2>2, EntriesAssumption
      <4>2. Len(b) < MaxEntries
          BY <2>6
      <4> QED
          BY <4>1, <4>2
    <3> QED
        BY <2>5, <3>1
  <2>7. \A n \in since \ ToSet(b) : \A m \in ToSet(b) : n < m
      BY <2>3, <2>5
  <2>8. \A i, j \in 1..Len(b) : i < j => b[i] < b[j]
      BY <2>1 DEF Newest
  <2> HIDE DEF since
  <2>9. Len(b) < MaxEntries => ToSet(b) = since
      BY <2>4, <2>6
  <2> QED
      BY <2>2, <2>4, <2>7, <2>8, <2>9 DEF since
<1> QED
    BY <1>1 DEF OutputInv, CopiedInv, OutputKept

\* Each channel shows its newest lines, and what is copied is what was chosen, though
\* rows move (log_list_model.py, output_pane.py).
THEOREM OutputCorrect == OutputSpec => []OutputKept
BY OutputInitInv, OutputNextInv, OutputIsKept, PTL DEF OutputSpec

----------------------------------------------------------------------------
(* DisplayOrder: values are in order by their group, and within it by key. *)

\* A value's group, and its key unless it is unknown.
LEMMA GroupAndKey ==
    ASSUME NEW v \in DisplayValues
    PROVE  /\ Group(v) \in 0..5 /\ (IsUnknown(v) <=> Group(v) = 5)
           /\ ~IsUnknown(v) => v.value \in Int /\ v.value # NaN /\ Key(v) \in Int
<1>1. Group(v) \in 0..5 /\ (IsUnknown(v) <=> Group(v) = 5)
    BY DEF Group
<1>2. ASSUME ~IsUnknown(v) PROVE v.value \in Int /\ v.value # NaN /\ Key(v) \in Int
  <2>1. v.value \in Int /\ v.value # NaN
      BY <1>2, DisplayValuesAssumption DEF IsUnknown
  <2>2. "offset" \in DOMAIN v => v.offset \in Int
      BY DisplayValuesAssumption
  <2> QED
      BY <2>1, <2>2 DEF Key
<1> QED
    BY <1>1, <1>2

\* NaN is in no comparison that counts.
LEMMA LessThanIs ==
    ASSUME NEW u \in DisplayValues, NEW v \in DisplayValues
    PROVE  LessThan(u, v) <=> \/ Group(u) < Group(v)
                              \/ Group(u) = Group(v) /\ Group(u) # 5 /\ Key(u) < Key(v)
<1>1. CASE Group(u) # Group(v)
    BY <1>1, GroupAndKey DEF LessThan
<1>2. CASE Group(u) = Group(v)
  <2>1. ~ (Group(u) < Group(v))
      BY <1>2, GroupAndKey
  <2>2. ~IsUnknown(u) => NaN \notin {u.value, v.value}
      BY <1>2, GroupAndKey
  <2>3. LessThan(u, v) <=> ~IsUnknown(u) /\ Key(u) < Key(v)
      BY <1>2, <2>2 DEF LessThan
  <2> QED
      BY <1>2, <2>1, <2>3, GroupAndKey
<1> QED
    BY <1>1, <1>2

\* No two values come before each other.
LEMMA LessThanOneWay ==
    ASSUME NEW u \in DisplayValues, NEW v \in DisplayValues
    PROVE  ~ (LessThan(u, v) /\ LessThan(v, u))
<1>1. Group(u) \in Int /\ Group(v) \in Int
    BY GroupAndKey
<1>2. Group(u) # 5 => Key(u) \in Int
    BY GroupAndKey
<1>3. Group(v) # 5 => Key(v) \in Int
    BY GroupAndKey
<1> QED
    BY <1>1, <1>2, <1>3, LessThanIs

\* Values in order with one between them are in order.
LEMMA InOrderAcross ==
    ASSUME NEW u \in DisplayValues, NEW v \in DisplayValues, NEW w \in DisplayValues,
           ~LessThan(v, u), ~LessThan(w, v)
    PROVE  ~LessThan(w, u)
<1>1. Group(u) \in Int /\ Group(v) \in Int /\ Group(w) \in Int
    BY GroupAndKey
<1>2. (Group(u) # 5 => Key(u) \in Int) /\ (Group(v) # 5 => Key(v) \in Int) /\ (Group(w) # 5 => Key(w) \in Int)
    BY GroupAndKey
<1>3. Group(u) < Group(v) \/ (Group(u) = Group(v) /\ (Group(v) # 5 => ~ (Key(v) < Key(u))))
    BY <1>1, LessThanIs
<1>4. Group(v) < Group(w) \/ (Group(v) = Group(w) /\ (Group(w) # 5 => ~ (Key(w) < Key(v))))
    BY <1>1, LessThanIs
<1>5. LessThan(w, u) <=> \/ Group(w) < Group(u)
                         \/ Group(w) = Group(u) /\ Group(w) # 5 /\ Key(w) < Key(u)
    BY LessThanIs
<1> QED
    BY <1>1, <1>2, <1>3, <1>4, <1>5

NumberOrder == {p \in Nat \X Nat : p[1] < p[2]}

\* The order of the natural numbers, as a set of pairs, has no descending sequence.
LEMMA NumbersOrdered == IsWellFoundedOn(NumberOrder, Nat)
    BY NatLessThanWellFounded DEF OpToRel, NumberOrder

\* A set of numbers has a least one.
LEMMA Least ==
    ASSUME NEW T \in SUBSET Nat, T # {}
    PROVE  \E x \in T : \A y \in T : ~ (y < x)
<1>1. PICK x \in T : \A y \in T : ~ (<<y, x>> \in NumberOrder)
    BY NumbersOrdered, WFMin
<1>2. \A y \in T : ~ (y < x)
    BY <1>1 DEF NumberOrder
<1> QED
    BY <1>2

\* Rows of which each is in order with the next are in order altogether: of those out
\* of order with a row above, the first would be in order with the one before it.
LEMMA NeighboursSuffice ==
    ASSUME column \in [1..Rows -> DisplayValues],
           \A i \in 1..Rows - 1 : ~LessThan(column[i + 1], column[i]),
           NEW i \in 1..Rows, NEW j \in 1..Rows, i < j
    PROVE  ~LessThan(column[j], column[i])
<1> DEFINE T == {k \in i + 1..Rows : LessThan(column[k], column[i])}
<1>1. SUFFICES ASSUME T # {} PROVE FALSE
    BY RowsAssumption
<1>2. T \in SUBSET Nat
    BY RowsAssumption
<1> HIDE DEF T
<1>3. PICK k \in T : \A y \in T : ~ (y < k)
    BY <1>1, <1>2, Least
<1> USE DEF T
<1>4. k \in i + 1..Rows /\ LessThan(column[k], column[i]) /\ k - 1 \in 1..Rows - 1 /\ (k - 1) + 1 = k
    BY <1>3, RowsAssumption
<1>5. ~LessThan(column[k], column[k - 1])
    BY <1>4
<1>6. CASE k - 1 = i
    BY <1>4, <1>5, <1>6
<1>7. CASE k - 1 # i
  <2>1. k - 1 \in i + 1..Rows /\ k - 1 < k
      BY <1>4, <1>7, RowsAssumption
  <2>2. ~LessThan(column[k - 1], column[i])
      BY <1>3, <2>1
  <2>3. column[i] \in DisplayValues /\ column[k - 1] \in DisplayValues /\ column[k] \in DisplayValues
      BY <1>4, <2>1, RowsAssumption
  <2> QED
      BY <1>4, <1>5, <2>2, <2>3, InOrderAcross
<1> QED
    BY <1>6, <1>7

ColumnInv == column \in [1..Rows -> DisplayValues]

LEMMA ColumnStays == ColumnInv /\ [OrderNext]_column => ColumnInv'
<1> SUFFICES ASSUME ColumnInv, [OrderNext]_column PROVE ColumnInv'
    OBVIOUS
<1>1. CASE OrderNext
  <2>1. PICK i \in 1..Rows - 1 : column' = [column EXCEPT ![i] = column[i + 1], ![i + 1] = column[i]]
      BY <1>1 DEF OrderNext, Sort
  <2>2. i \in 1..Rows /\ i + 1 \in 1..Rows
      BY RowsAssumption
  <2> QED
      BY <2>1, <2>2 DEF ColumnInv
<1> QED
    BY <1>1 DEF ColumnInv

LEMMA ColumnSorts == ColumnInv => RowsSort
<1> SUFFICES ASSUME ColumnInv PROVE RowsSort
    OBVIOUS
<1>1. DOMAIN column = 1..Rows /\ \A i \in 1..Rows : column[i] \in DisplayValues
    BY DEF ColumnInv
<1>2. \A i, j \in 1..Rows : ~ (LessThan(column[i], column[j]) /\ LessThan(column[j], column[i]))
    BY <1>1, LessThanOneWay
<1>3. ASSUME \A i \in 1..Rows - 1 : ~LessThan(column[i + 1], column[i]),
             NEW i \in 1..Rows, NEW j \in 1..Rows, i < j
      PROVE  ~LessThan(column[j], column[i]) /\ (IsUnknown(column[i]) => IsUnknown(column[j]))
  <2>1. ~LessThan(column[j], column[i])
      BY <1>3, NeighboursSuffice DEF ColumnInv
  <2>2. Group(column[j]) \in 0..5 /\ Group(column[i]) \in 0..5 /\ ~ (Group(column[j]) < Group(column[i]))
      BY <1>1, <2>1, GroupAndKey, LessThanIs
  <2>3. Group(column[i]) = 5 => Group(column[j]) = 5
      BY <2>2
  <2> QED
      BY <1>1, <2>1, <2>3, GroupAndKey
<1> QED
    BY <1>1, <1>2, <1>3 DEF RowsSort

\* A column can be sorted by its display values, whatever it mixes
\* (display_value_order.py).
THEOREM OrderCorrect == OrderSpec => []RowsSort
<1>1. OrderInit => ColumnInv
    BY DEF OrderInit, ColumnInv
<1> QED
    BY <1>1, ColumnStays, ColumnSorts, PTL DEF OrderSpec

----------------------------------------------------------------------------
(* Presenters: forwarders on the bus, teardown, and what is on its way. *)

\* A presenter was torn down once if it was disposed of, and never otherwise.
ScreensTypeInv ==
    /\ presenter \in [Names -> {"none", "ready", "disposed", "freed"}]
    /\ torn = [s \in Names |-> IF presenter[s] = "disposed" THEN 1 ELSE 0]
    /\ forwarders \subseteq Names /\ bus \in Seq(Names)
    /\ left \in Seq(Names)

\* The bus holds each forwarder once.
BusInv ==
    /\ \A i, j \in 1..Len(bus) : bus[i] = bus[j] => i = j
    /\ \A i \in 1..Len(bus) : bus[i] \in forwarders
    /\ \A s \in forwarders : \E i \in 1..Len(bus) : bus[i] = s
    /\ \A s \in forwarders : presenter[s] \in {"ready", "freed"}

\* Until teardown is over, it is still to come to those that are ready.
TeardownInv ==
    /\ shut = "running" =>
         \A s \in Names : presenter[s] = "ready" => \E i \in 1..Len(left) : left[i] = s
    /\ shut = "done" => \A s \in Names : presenter[s] # "ready"

ManagingInv == ScreensTypeInv /\ BusInv /\ TeardownInv

\* Something posted or delivered: a screen that was subscribed, an event, its thread.
IsDelivery(d, h, origin) ==
    /\ d \in Names \X Nat \X Origins
    /\ d[2] \in 1..Len(h) /\ d[1] \in h[d[2]] /\ d[3] = origin[d[2]]

\* What the k-th call still to come of the emission e on thread t delivers.
Coming(e, t, k) == <<e.left[k], e.event, t>>

\* Of what one screen hears of one thread, c is older than d.
Older(c, d) == c[1] = d[1] /\ c[3] = d[3] => c[2] < d[2]

\* What an emission e on thread t is still to post: each once, younger than what is.
IsEmission(e, t, posts, runs, h, origin) ==
    /\ e \in [event : Nat, left : Seq(Names)]
    /\ \A k \in 1..Len(e.left) :
         /\ IsDelivery(Coming(e, t, k), h, origin)
         /\ \A i \in 1..Len(runs) : Older(runs[i], Coming(e, t, k))
         /\ \A i \in 1..Len(posts) : Older(posts[i], Coming(e, t, k))
         /\ \A l \in 1..Len(e.left) : e.left[k] = e.left[l] => k = l

\* What ran is older than what is posted, by the worker alone.
ArePosted(posts, runs, h, origin) ==
    /\ posts \in Seq(Names \X Nat \X Origins) /\ runs \in Seq(Names \X Nat \X Origins)
    /\ \A i \in 1..Len(runs) : IsDelivery(runs[i], h, origin)
    /\ \A i \in 1..Len(posts) : IsDelivery(posts[i], h, origin) /\ posts[i][3] = "worker"
    /\ \A i, j \in 1..Len(runs) : i < j => Older(runs[i], runs[j])
    /\ \A i, j \in 1..Len(posts) : i < j => Older(posts[i], posts[j])
    /\ \A i \in 1..Len(runs), j \in 1..Len(posts) : Older(runs[i], posts[j])

\* Every event comes from one thread, in the order it emitted them.
DeliveryInv(origin) ==
    /\ heard \in Seq(SUBSET Names) /\ emitted = Len(heard)
    /\ origin \in Seq(Origins) /\ Len(origin) = Len(heard)
    /\ ArePosted(deliveries, delivered, heard, origin)
    /\ emitting = [t \in Origins |-> emitting[t]]
    /\ \A t \in Origins : IsEmission(emitting[t], t, deliveries, delivered, heard, origin)

ScreensInv == ManagingInv /\ \E origin : DeliveryInv(origin)

LEMMA ScreensInitInv == ScreensInit => ScreensInv
<1> SUFFICES ASSUME ScreensInit PROVE ScreensInv
    OBVIOUS
<1>1. ManagingInv
    BY DEF ScreensInit, ManagingInv, ScreensTypeInv, BusInv, TeardownInv
<1>2. Quiet \in [event : Nat, left : Seq(Names)] /\ Len(Quiet.left) = 0
    BY DEF Quiet
<1>3. emitting = [t \in Origins |-> emitting[t]] /\ \A t \in Origins : emitting[t] = Quiet
    BY DEF ScreensInit
<1>4. \A t \in Origins : IsEmission(emitting[t], t, deliveries, delivered, heard, <<>>)
    BY <1>2, <1>3 DEF IsEmission
<1>5. ArePosted(deliveries, delivered, heard, <<>>)
    BY DEF ScreensInit, ArePosted
<1>6. DeliveryInv(<<>>)
    BY <1>3, <1>4, <1>5 DEF ScreensInit, DeliveryInv
<1> QED
    BY <1>1, <1>6 DEF ScreensInv

LEMMA RemovedAt ==
    ASSUME NEW S, NEW s \in Seq(S), NEW i \in 1..Len(s)
    PROVE  /\ RemoveAt(s, i) \in Seq(S) /\ Len(s) \in Nat /\ Len(RemoveAt(s, i)) = Len(s) - 1
           /\ \A j \in 1..Len(s) - 1 : RemoveAt(s, i)[j] = IF j < i THEN s[j] ELSE s[j + 1]
<1> DEFINE a == SubSeq(s, 1, i - 1)
           b == SubSeq(s, i + 1, Len(s))
<1>1. Len(s) \in Nat /\ \A j \in 1..Len(s) : s[j] \in S
    BY LenProperties
<1>2. a \in Seq(S) /\ Len(a) = i - 1 /\ \A j \in 1..i - 1 : a[j] = s[j]
  <2>1. \A j \in 1..i - 1 : s[j] \in S
      BY <1>1
  <2>2. /\ a \in Seq(S) /\ Len(a) = IF 1 <= i - 1 THEN (i - 1) - 1 + 1 ELSE 0
        /\ \A j \in 1..(i - 1) - 1 + 1 : a[j] = s[1 + j - 1]
      BY <1>1, <2>1, SubSeqProperties
  <2> HIDE DEF a
  <2> QED
      BY <1>1, <2>2
<1>3. b \in Seq(S) /\ Len(b) = Len(s) - i /\ \A j \in 1..Len(s) - i : b[j] = s[i + j]
  <2>1. \A j \in i + 1..Len(s) : s[j] \in S
      BY <1>1
  <2>2. /\ b \in Seq(S) /\ Len(b) = IF i + 1 <= Len(s) THEN Len(s) - (i + 1) + 1 ELSE 0
        /\ \A j \in 1..Len(s) - (i + 1) + 1 : b[j] = s[(i + 1) + j - 1]
      BY <1>1, <2>1, SubSeqProperties
  <2>3. \A j \in 1..Len(s) - i : j \in 1..Len(s) - (i + 1) + 1 /\ (i + 1) + j - 1 = i + j
      BY <1>1
  <2> HIDE DEF b
  <2> QED
      BY <1>1, <2>2, <2>3
<1> HIDE DEF a, b
<1>4. /\ a \o b \in Seq(S) /\ Len(a \o b) = Len(a) + Len(b)
      /\ \A j \in 1..Len(a) + Len(b) : (a \o b)[j] = IF j <= Len(a) THEN a[j] ELSE b[j - Len(a)]
    BY <1>2, <1>3, ConcatProperties
<1>5. RemoveAt(s, i) = a \o b
    BY DEF RemoveAt, a, b
<1>6. ASSUME NEW j \in 1..Len(s) - 1 PROVE RemoveAt(s, i)[j] = IF j < i THEN s[j] ELSE s[j + 1]
  <2>1. j \in 1..Len(a) + Len(b) /\ Len(a) = i - 1 /\ Len(b) = Len(s) - i
      BY <1>1, <1>2, <1>3
  <2>2. CASE j < i
      BY <1>2, <1>4, <1>5, <2>1, <2>2
  <2>3. CASE ~ (j < i)
    <3>1. j - Len(a) \in 1..Len(s) - i /\ i + (j - Len(a)) = j + 1 /\ ~ (j <= Len(a))
        BY <1>1, <2>1, <2>3
    <3> QED
        BY <1>3, <1>4, <1>5, <2>1, <2>3, <3>1
  <2> QED
      BY <2>2, <2>3
<1>7. Len(a) + Len(b) = Len(s) - 1
    BY <1>1, <1>2, <1>3
<1> QED
    BY <1>1, <1>4, <1>5, <1>6, <1>7

\* on() puts a forwarder on the bus that was not there.
LEMMA OnKeepsBus ==
    ASSUME ScreensTypeInv, BusInv, NEW s \in Names, On(s), presenter'[s] \in {"ready", "freed"},
           \A r \in Names : r # s => presenter'[r] = presenter[r]
    PROVE  forwarders' \subseteq Names /\ bus' \in Seq(Names) /\ BusInv'
<1>1. forwarders' = forwarders \cup {s} /\ forwarders' \subseteq Names
    BY DEF On, ScreensTypeInv
<1>2. \A r \in forwarders' : presenter'[r] \in {"ready", "freed"}
    BY <1>1 DEF BusInv, ScreensTypeInv
<1>3. CASE s \in forwarders
  <2>1. bus' = bus /\ forwarders' = forwarders
      BY <1>3 DEF On
  <2> QED
      BY <1>1, <1>2, <2>1 DEF BusInv, ScreensTypeInv
<1>4. CASE s \notin forwarders
  <2>1. bus' = Append(bus, s) /\ bus \in Seq(Names)
      BY <1>4 DEF On, ScreensTypeInv
  <2>2. /\ bus' \in Seq(Names) /\ Len(bus) \in Nat /\ Len(bus') = Len(bus) + 1
        /\ \A i \in 1..Len(bus) : bus'[i] = bus[i]
        /\ bus'[Len(bus) + 1] = s
      BY <2>1, AppendedAt
  <2>3. \A i \in 1..Len(bus') : i \in 1..Len(bus) \/ i = Len(bus) + 1
      BY <2>2
  <2>4. \A i \in 1..Len(bus) : bus'[i] \in forwarders /\ bus'[i] # s
      BY <1>4, <2>2 DEF BusInv
  <2>5. \A i \in 1..Len(bus') : bus'[i] \in forwarders'
      BY <1>1, <2>2, <2>3, <2>4
  <2>6. \A i, j \in 1..Len(bus') : bus'[i] = bus'[j] => i = j
    <3> SUFFICES ASSUME NEW i \in 1..Len(bus'), NEW j \in 1..Len(bus'), bus'[i] = bus'[j] PROVE i = j
        OBVIOUS
    <3>1. CASE i \in 1..Len(bus) /\ j \in 1..Len(bus)
        BY <2>2, <3>1 DEF BusInv
    <3>2. CASE ~ (i \in 1..Len(bus) /\ j \in 1..Len(bus))
        BY <2>2, <2>3, <2>4, <3>2
    <3> QED
        BY <3>1, <3>2
  <2>7. \A r \in forwarders' : \E i \in 1..Len(bus') : bus'[i] = r
    <3> SUFFICES ASSUME NEW r \in forwarders' PROVE \E i \in 1..Len(bus') : bus'[i] = r
        OBVIOUS
    <3>1. CASE r = s
      <4>1. Len(bus) + 1 \in 1..Len(bus')
          BY <2>2
      <4> QED
          BY <2>2, <3>1, <4>1
    <3>2. CASE r \in forwarders
      <4>1. PICK i \in 1..Len(bus) : bus[i] = r
          BY <3>2 DEF BusInv
      <4>2. i \in 1..Len(bus') /\ bus'[i] = r
          BY <2>2, <4>1
      <4> QED
          BY <4>2
    <3> QED
        BY <1>1, <3>1, <3>2
  <2> QED
      BY <1>1, <1>2, <2>2, <2>5, <2>6, <2>7 DEF BusInv
<1> QED
    BY <1>3, <1>4

\* off() takes back the forwarder that the bus holds once.
LEMMA OffKeepsBus ==
    ASSUME ScreensTypeInv, BusInv, NEW s \in Names, Off(s),
           \A r \in Names : r # s => presenter'[r] = presenter[r]
    PROVE  forwarders' \subseteq Names /\ s \notin forwarders' /\ bus' \in Seq(Names) /\ BusInv'
<1>1. forwarders' = forwarders \ {s} /\ forwarders' \subseteq Names
    BY DEF Off, ScreensTypeInv
<1>2. \A r \in forwarders' : presenter'[r] \in {"ready", "freed"}
    BY <1>1 DEF BusInv
<1>3. CASE s \notin forwarders
  <2>1. bus' = bus /\ forwarders' = forwarders
      BY <1>1, <1>3 DEF Off
  <2> QED
      BY <1>1, <1>2, <2>1 DEF BusInv, ScreensTypeInv
<1>4. CASE s \in forwarders
  <2> DEFINE at == CHOOSE i \in DOMAIN bus : bus[i] = s
  <2>1. bus \in Seq(Names) /\ DOMAIN bus = 1..Len(bus) /\ bus' = RemoveAt(bus, at)
      BY <1>4 DEF Off, ScreensTypeInv
  <2>2. at \in 1..Len(bus) /\ bus[at] = s
      BY <1>4, <2>1 DEF BusInv
  <2> HIDE DEF at
  <2>3. /\ bus' \in Seq(Names) /\ Len(bus) \in Nat /\ Len(bus') = Len(bus) - 1
        /\ \A j \in 1..Len(bus) - 1 : bus'[j] = IF j < at THEN bus[j] ELSE bus[j + 1]
      BY <2>1, <2>2, RemovedAt
  <2> DEFINE Was(j) == IF j < at THEN j ELSE j + 1
  <2>4. \A j \in 1..Len(bus') : Was(j) \in 1..Len(bus) /\ Was(j) # at /\ bus'[j] = bus[Was(j)]
    <3> SUFFICES ASSUME NEW j \in 1..Len(bus')
                 PROVE  Was(j) \in 1..Len(bus) /\ Was(j) # at /\ bus'[j] = bus[Was(j)]
        OBVIOUS
    <3>1. j \in 1..Len(bus) - 1 /\ j + 1 \in 1..Len(bus) /\ j \in 1..Len(bus)
        BY <2>3
    <3> QED
        BY <2>2, <2>3, <3>1
  <2>5. \A i, j \in 1..Len(bus') : bus'[i] = bus'[j] => i = j
    <3> SUFFICES ASSUME NEW i \in 1..Len(bus'), NEW j \in 1..Len(bus'), bus'[i] = bus'[j] PROVE i = j
        OBVIOUS
    <3>1. Was(i) = Was(j)
      <4> HIDE DEF Was
      <4>1. Was(i) \in 1..Len(bus) /\ Was(j) \in 1..Len(bus) /\ bus[Was(i)] = bus[Was(j)]
          BY <2>4
      <4>2. \A m, n \in 1..Len(bus) : bus[m] = bus[n] => m = n
          BY DEF BusInv
      <4> QED
          BY <4>1, <4>2
    <3> QED
        BY <2>2, <2>3, <3>1
  <2>6. \A j \in 1..Len(bus') : bus'[j] \in forwarders'
    <3> HIDE DEF Was
    <3> SUFFICES ASSUME NEW j \in 1..Len(bus') PROVE bus'[j] \in forwarders'
        OBVIOUS
    <3>1. Was(j) \in 1..Len(bus) /\ Was(j) # at /\ bus'[j] = bus[Was(j)]
        BY <2>4
    <3>2. bus[Was(j)] \in forwarders /\ bus[Was(j)] # s
        BY <2>2, <3>1 DEF BusInv
    <3> QED
        BY <1>1, <3>1, <3>2
  <2>7. \A r \in forwarders' : \E i \in 1..Len(bus') : bus'[i] = r
    <3> SUFFICES ASSUME NEW r \in forwarders' PROVE \E i \in 1..Len(bus') : bus'[i] = r
        OBVIOUS
    <3>1. PICK i \in 1..Len(bus) : bus[i] = r
        BY <1>1 DEF BusInv
    <3>2. i # at
        BY <1>1, <2>2, <3>1
    <3>3. CASE i < at
      <4>1. i \in 1..Len(bus') /\ bus'[i] = r
          BY <2>2, <2>3, <3>1, <3>3
      <4> QED
          BY <4>1
    <3>4. CASE at < i
      <4>1. i - 1 \in 1..Len(bus) - 1 /\ ~ (i - 1 < at) /\ (i - 1) + 1 = i
          BY <2>2, <2>3, <3>4
      <4>2. bus'[i - 1] = r /\ i - 1 \in 1..Len(bus')
          BY <2>3, <3>1, <4>1
      <4> QED
          BY <4>2
    <3> QED
        BY <2>2, <2>3, <3>2, <3>3, <3>4
  <2> QED
      BY <1>1, <1>2, <2>3, <2>5, <2>6, <2>7 DEF BusInv
<1> QED
    BY <1>3, <1>4

LEMMA NavigateKeeps ==
    ASSUME ManagingInv, NEW s \in Names, NavigateTo(s) PROVE ManagingInv'
<1>1. /\ presenter' = [presenter EXCEPT ![s] = "ready"] /\ On(s)
      /\ UNCHANGED <<shut, left, torn>> /\ shut = "no" /\ presenter[s] = "none"
    BY DEF NavigateTo
<1>2. forwarders' \subseteq Names /\ bus' \in Seq(Names) /\ BusInv'
    BY <1>1, OnKeepsBus DEF ManagingInv, ScreensTypeInv
<1>3. ScreensTypeInv' /\ TeardownInv'
    BY <1>1, <1>2 DEF ManagingInv, ScreensTypeInv, TeardownInv
<1> QED
    BY <1>2, <1>3 DEF ManagingInv

LEMMA ResubscribeKeeps ==
    ASSUME ManagingInv, NEW s \in Names, Resubscribe(s) PROVE ManagingInv'
<1>1. UNCHANGED managing /\ presenter[s] = "ready" /\ (On(s) \/ Off(s))
    BY DEF Resubscribe
<1>2. forwarders' \subseteq Names /\ bus' \in Seq(Names) /\ BusInv'
    BY <1>1, OnKeepsBus, OffKeepsBus DEF ManagingInv, managing
<1> QED
    BY <1>1, <1>2 DEF ManagingInv, ScreensTypeInv, TeardownInv, managing

\* dispose() once: the forwarder goes, the hook runs.
LEMMA DisposedKeeps ==
    ASSUME ManagingInv, NEW s \in Names, Disposed(s, presenter[s])
    PROVE  /\ ScreensTypeInv' \/ left' \notin Seq(Names)
           /\ BusInv'
           /\ \A r \in Names : presenter'[r] = "ready" => presenter[r] = "ready" /\ r # s
<1>1. CASE presenter[s] # "ready"
  <2>1. UNCHANGED <<presenter, torn, forwarders, bus>>
      BY <1>1 DEF Disposed, bridge
  <2> QED
      BY <1>1, <2>1 DEF ManagingInv, ScreensTypeInv, BusInv
<1>2. CASE presenter[s] = "ready"
  <2>1. /\ presenter' = [presenter EXCEPT ![s] = "disposed"] /\ Off(s)
        /\ torn' = [torn EXCEPT ![s] = @ + 1]
      BY <1>2 DEF Disposed
  <2>2. \A r \in Names : r # s => presenter'[r] = presenter[r]
      BY <2>1 DEF ManagingInv, ScreensTypeInv
  <2>3. forwarders' \subseteq Names /\ bus' \in Seq(Names) /\ BusInv'
      BY <2>1, <2>2, OffKeepsBus DEF ManagingInv
  <2>4. presenter' \in [Names -> {"none", "ready", "disposed", "freed"}] /\ presenter'[s] = "disposed"
      BY <2>1 DEF ManagingInv, ScreensTypeInv
  <2>5. torn' = [r \in Names |-> IF presenter'[r] = "disposed" THEN 1 ELSE 0]
    <3>1. torn[s] = 0 /\ torn = [r \in Names |-> IF presenter[r] = "disposed" THEN 1 ELSE 0]
        BY <1>2 DEF ManagingInv, ScreensTypeInv
    <3> QED
        BY <2>1, <2>2, <2>4, <3>1
  <2> QED
      BY <2>2, <2>3, <2>4, <2>5 DEF ScreensTypeInv
<1> QED
    BY <1>1, <1>2

LEMMA DisposeKeeps ==
    ASSUME ManagingInv, NEW s \in Names, DisposePresenter(s) PROVE ManagingInv'
<1>1. Disposed(s, presenter[s]) /\ UNCHANGED <<shut, left>>
    BY DEF DisposePresenter
<1>2. left' \in Seq(Names)
    BY <1>1 DEF ManagingInv, ScreensTypeInv
<1>3. ScreensTypeInv' /\ BusInv' /\ \A r \in Names : presenter'[r] = "ready" => presenter[r] = "ready"
    BY <1>1, <1>2, DisposedKeeps
<1>4. TeardownInv'
    BY <1>1, <1>3 DEF ManagingInv, TeardownInv
<1> QED
    BY <1>3, <1>4 DEF ManagingInv

LEMMA FreeKeeps ==
    ASSUME ManagingInv, NEW s \in Names, FreePresenter(s) PROVE ManagingInv'
<1>1. /\ presenter' = [presenter EXCEPT ![s] = "freed"] /\ presenter[s] = "ready"
      /\ UNCHANGED <<shut, left, torn, forwarders, bus>>
    BY DEF FreePresenter, bridge
<1>2. ScreensTypeInv'
    BY <1>1 DEF ManagingInv, ScreensTypeInv
<1>3. BusInv' /\ TeardownInv'
    BY <1>1 DEF ManagingInv, ScreensTypeInv, BusInv, TeardownInv
<1> QED
    BY <1>2, <1>3 DEF ManagingInv

\* Every screen is to be torn down.
LEMMA ShutdownAllKeeps == ManagingInv /\ ShutdownAll => ManagingInv'
<1> SUFFICES ASSUME ManagingInv, ShutdownAll PROVE ManagingInv'
    OBVIOUS
<1>1. left' = [i \in 1..Len(Screens) |-> Screens[(Len(Screens) - i) + 1]]
    BY DEF ShutdownAll, ShutdownOrder, Reverse
<1>2. Len(Screens) \in Nat /\ DOMAIN Screens = 1..Len(Screens) /\ \A i \in 1..Len(Screens) : Screens[i] \in Names
    BY ScreensAssumption DEF Names, ToSet
<1>3. left' \in Seq(Names) /\ Len(left') = Len(Screens)
    BY <1>1, <1>2
<1>4. ASSUME NEW s \in Names PROVE \E i \in 1..Len(left') : left'[i] = s
  <2>1. PICK i \in 1..Len(Screens) : Screens[i] = s
      BY <1>2 DEF Names, ToSet
  <2>2. (Len(Screens) - i) + 1 \in 1..Len(left') /\ (Len(Screens) - ((Len(Screens) - i) + 1)) + 1 = i
      BY <1>2, <1>3
  <2>3. left'[(Len(Screens) - i) + 1] = s
      BY <1>1, <1>3, <2>1, <2>2
  <2> QED
      BY <2>2, <2>3
<1>5. shut' = "running" /\ UNCHANGED <<presenter, torn, forwarders, bus>>
    BY DEF ShutdownAll, bridge
<1> QED
    BY <1>3, <1>4, <1>5 DEF ManagingInv, ScreensTypeInv, BusInv, TeardownInv

\* Teardown goes on to the next, whatever the hook does.
LEMMA TeardownKeeps ==
    ASSUME ManagingInv, NEW raises \in BOOLEAN, TeardownNext(raises) PROVE ManagingInv'
<1> DEFINE s == Head(left)
<1>1. shut = "running" /\ shut' = "running" /\ left \in Seq(Names) /\ left # <<>> /\ left' = Tail(left)
    BY DEF TeardownNext, AfterHookRaised, ManagingInv, ScreensTypeInv
<1>2. /\ left' \in Seq(Names) /\ Len(left) \in Nat \ {0} /\ Len(left') = Len(left) - 1
      /\ \A i \in 1..Len(left) - 1 : left'[i] = left[i + 1]
      /\ s = left[1] /\ s \in Names
    BY <1>1, TailAt
<1>3. ScreensTypeInv' /\ BusInv' /\ \A r \in Names : presenter'[r] = "ready" => presenter[r] = "ready" /\ r # s
    BY <1>2, DisposedKeeps DEF TeardownNext
<1>4. ASSUME NEW r \in Names, presenter'[r] = "ready" PROVE \E i \in 1..Len(left') : left'[i] = r
  <2>1. PICK i \in 1..Len(left) : left[i] = r
      BY <1>1, <1>3, <1>4 DEF ManagingInv, TeardownInv
  <2>2. i # 1
      BY <1>2, <1>3, <1>4, <2>1
  <2>3. i - 1 \in 1..Len(left') /\ (i - 1) + 1 = i /\ i - 1 \in 1..Len(left) - 1
      BY <1>2, <2>2
  <2>4. left'[i - 1] = r
      BY <1>2, <2>1, <2>3
  <2> QED
      BY <2>3, <2>4
<1>5. TeardownInv'
    BY <1>1, <1>4 DEF TeardownInv
<1> QED
    BY <1>3, <1>5 DEF ManagingInv

LEMMA ShutdownReturnsKeeps == ManagingInv /\ ShutdownReturns => ManagingInv'
<1> SUFFICES ASSUME ManagingInv, ShutdownReturns PROVE ManagingInv'
    OBVIOUS
<1>1. shut = "running" /\ left = <<>> /\ shut' = "done" /\ UNCHANGED <<presenter, left, torn, forwarders, bus>>
    BY DEF ShutdownReturns, bridge
<1> QED
    BY <1>1 DEF ManagingInv, ScreensTypeInv, BusInv, TeardownInv

LEMMA ManagingStays == ManagingInv /\ UNCHANGED <<managing, bridge>> => ManagingInv'
BY DEF managing, bridge, ManagingInv, ScreensTypeInv, BusInv, TeardownInv

LEMMA DeliveryStays ==
    ASSUME NEW origin, DeliveryInv(origin), UNCHANGED delivery PROVE DeliveryInv(origin)'
BY DEF DeliveryInv, delivery

\* An event more changes nothing about the earlier ones.
LEMMA LaterHeard ==
    ASSUME NEW h \in Seq(SUBSET Names), NEW origin \in Seq(Origins), Len(origin) = Len(h),
           NEW who \in SUBSET Names, NEW t \in Origins, NEW d, IsDelivery(d, h, origin)
    PROVE  IsDelivery(d, Append(h, who), Append(origin, t)) /\ d[2] \in Nat /\ d[2] < Len(h) + 1
<1>1. /\ Len(h) \in Nat /\ Len(Append(h, who)) = Len(h) + 1
      /\ \A i \in 1..Len(h) : Append(h, who)[i] = h[i]
      /\ \A i \in 1..Len(h) : Append(origin, t)[i] = origin[i]
    BY AppendedAt
<1>2. d[2] \in 1..Len(h) /\ d[2] \in 1..Len(Append(h, who))
    BY <1>1 DEF IsDelivery
<1> QED
    BY <1>1, <1>2 DEF IsDelivery

\* An event that is emitted is younger than all others.
LEMMA EmitKeeps ==
    ASSUME ManagingInv, NEW origin, DeliveryInv(origin), NEW t \in Origins, EmitEvent(t)
    PROVE  DeliveryInv(Append(origin, t))'
<1> DEFINE later == Append(origin, t)
           n1 == Len(heard) + 1
           who == ToSet(bus)
           new == [event |-> n1, left |-> bus]
           heard1 == Append(heard, who)
<1>1. /\ emitting' = [emitting EXCEPT ![t] = new] /\ heard' = heard1 /\ emitted' = n1
      /\ UNCHANGED <<deliveries, delivered>>
    BY DEF EmitEvent, DeliveryInv
<1>2. /\ heard \in Seq(SUBSET Names) /\ origin \in Seq(Origins) /\ Len(origin) = Len(heard)
      /\ bus \in Seq(Names) /\ DOMAIN bus = 1..Len(bus) /\ who \in SUBSET Names
    BY DEF DeliveryInv, ManagingInv, ScreensTypeInv, ToSet
<1>3. /\ heard1 \in Seq(SUBSET Names) /\ Len(heard1) = n1 /\ heard1[n1] = who
      /\ later \in Seq(Origins) /\ Len(later) = n1 /\ later[n1] = t /\ Len(heard) \in Nat
    BY <1>2, AppendedAt
<1>4. ASSUME NEW d, IsDelivery(d, heard, origin)
      PROVE  IsDelivery(d, heard1, later) /\ d[2] \in Nat /\ d[2] < n1
    BY <1>2, <1>4, LaterHeard
<1>5. ArePosted(deliveries, delivered, heard, origin)
    BY DEF DeliveryInv
<1> HIDE DEF later, heard1
<1>6. ArePosted(deliveries, delivered, heard1, later)
    BY <1>4, <1>5 DEF ArePosted
<1>7. ASSUME NEW u \in Origins
      PROVE  IsEmission(emitting'[u], u, deliveries, delivered, heard1, later)
  <2>1. CASE u # t
    <3>1. emitting'[u] = emitting[u] /\ IsEmission(emitting[u], u, deliveries, delivered, heard, origin)
        BY <1>1, <2>1 DEF DeliveryInv
    <3> QED
        BY <1>4, <3>1 DEF IsEmission
  <2>2. CASE u = t
    <3>1. emitting'[u] = new /\ new.event = n1 /\ new.left = bus /\ new \in [event : Nat, left : Seq(Names)]
        BY <1>1, <1>2, <1>3, <2>2 DEF DeliveryInv
    <3> HIDE DEF new
    <3>2. ASSUME NEW k \in 1..Len(new.left)
          PROVE  /\ IsDelivery(Coming(new, t, k), heard1, later)
                 /\ \A i \in 1..Len(delivered) : Older(delivered[i], Coming(new, t, k))
                 /\ \A i \in 1..Len(deliveries) : Older(deliveries[i], Coming(new, t, k))
                 /\ \A l \in 1..Len(new.left) : new.left[k] = new.left[l] => k = l
      <4>1. Coming(new, t, k) = <<bus[k], n1, t>> /\ k \in 1..Len(bus) /\ bus[k] \in Names /\ bus[k] \in who
          BY <1>2, <3>1 DEF Coming, ToSet
      <4>2. n1 \in Nat /\ n1 \in 1..Len(heard1)
          BY <1>3
      <4>3. IsDelivery(Coming(new, t, k), heard1, later)
          BY <1>3, <4>1, <4>2 DEF IsDelivery
      <4>4. \A i \in 1..Len(delivered) : delivered[i][2] < n1
          BY <1>4, <1>5 DEF ArePosted
      <4>5. \A i \in 1..Len(deliveries) : deliveries[i][2] < n1
          BY <1>4, <1>5 DEF ArePosted
      <4>6. \A l \in 1..Len(bus) : bus[k] = bus[l] => k = l
          BY <4>1 DEF ManagingInv, BusInv
      <4> QED
          BY <3>1, <4>1, <4>3, <4>4, <4>5, <4>6 DEF Older
    <3> QED
        BY <2>2, <3>1, <3>2 DEF IsEmission
  <2> QED
      BY <2>1, <2>2
<1>8. emitting' = [u \in Origins |-> emitting'[u]]
    BY <1>1 DEF DeliveryInv
<1> QED
    BY <1>1, <1>3, <1>6, <1>7, <1>8 DEF DeliveryInv, later, heard1

\* The rest of an emission is one.
LEMMA RestIsEmission ==
    ASSUME NEW e, NEW t, NEW posts, NEW runs, NEW h, NEW origin,
           IsEmission(e, t, posts, runs, h, origin), e.left # <<>>
    PROVE  /\ IsEmission([e EXCEPT !.left = Tail(@)], t, posts, runs, h, origin)
           /\ \A k \in 1..Len(e.left) - 1 :
                Older(Coming(e, t, 1), Coming([e EXCEPT !.left = Tail(@)], t, k))
<1> DEFINE rest == [e EXCEPT !.left = Tail(@)]
<1>1. /\ rest \in [event : Nat, left : Seq(Names)] /\ rest.event = e.event /\ rest.left = Tail(e.left)
      /\ e.left \in Seq(Names)
    BY TailAt DEF IsEmission
<1>2. /\ Len(e.left) \in Nat \ {0} /\ Len(rest.left) = Len(e.left) - 1
      /\ \A k \in 1..Len(e.left) - 1 : rest.left[k] = e.left[k + 1]
    BY <1>1, TailAt
<1> HIDE DEF rest
<1>3. ASSUME NEW k \in 1..Len(rest.left)
      PROVE  k + 1 \in 1..Len(e.left) /\ Coming(rest, t, k) = Coming(e, t, k + 1) /\ rest.left[k] = e.left[k + 1]
    BY <1>1, <1>2 DEF Coming
<1>4. ASSUME NEW k \in 1..Len(rest.left)
      PROVE  /\ IsDelivery(Coming(rest, t, k), h, origin)
             /\ \A i \in 1..Len(runs) : Older(runs[i], Coming(rest, t, k))
             /\ \A i \in 1..Len(posts) : Older(posts[i], Coming(rest, t, k))
             /\ \A l \in 1..Len(rest.left) : rest.left[k] = rest.left[l] => k = l
             /\ Older(Coming(e, t, 1), Coming(rest, t, k))
  <2>1. /\ IsDelivery(Coming(e, t, k + 1), h, origin)
        /\ \A i \in 1..Len(runs) : Older(runs[i], Coming(e, t, k + 1))
        /\ \A i \in 1..Len(posts) : Older(posts[i], Coming(e, t, k + 1))
        /\ \A l \in 1..Len(e.left) : e.left[k + 1] = e.left[l] => k + 1 = l
      BY <1>3 DEF IsEmission
  <2>2. \A l \in 1..Len(rest.left) : rest.left[k] = rest.left[l] => k = l
    <3> SUFFICES ASSUME NEW l \in 1..Len(rest.left), rest.left[k] = rest.left[l] PROVE k = l
        OBVIOUS
    <3>1. l + 1 \in 1..Len(e.left) /\ e.left[k + 1] = e.left[l + 1]
        BY <1>3
    <3>2. k + 1 = l + 1
        BY <2>1, <3>1
    <3> QED
        BY <1>2, <3>2
  <2>3. e.left[k + 1] # e.left[1]
    <3>1. 1 \in 1..Len(e.left) /\ k + 1 # 1
        BY <1>2
    <3> QED
        BY <2>1, <3>1
  <2>4. Older(Coming(e, t, 1), Coming(rest, t, k))
      BY <1>3, <2>3 DEF Older, Coming
  <2> QED
      BY <1>3, <2>1, <2>2, <2>4
<1>5. IsEmission(rest, t, posts, runs, h, origin)
    BY <1>1, <1>4 DEF IsEmission
<1>6. \A k \in 1..Len(e.left) - 1 : Older(Coming(e, t, 1), Coming(rest, t, k))
    BY <1>2, <1>4
<1> QED
    BY <1>5, <1>6 DEF rest

\* What is posted, or runs, by its thread is younger than all that is, and older than what that
\* thread is still to post.
LEMMA ForwardKeeps ==
    ASSUME NEW origin, DeliveryInv(origin), NEW t \in Origins, Forward(t)
    PROVE  DeliveryInv(origin)'
<1> DEFINE e == emitting[t]
           rest == [e EXCEPT !.left = Tail(@)]
           d == Coming(e, t, 1)
<1>1. /\ IsEmission(e, t, deliveries, delivered, heard, origin) /\ e.left # <<>>
      /\ ArePosted(deliveries, delivered, heard, origin)
    BY DEF Forward, DeliveryInv
<1>2. e.left \in Seq(Names) /\ Head(e.left) = e.left[1] /\ 1 \in 1..Len(e.left)
    BY <1>1, TailAt DEF IsEmission
<1>3. /\ emitting' = [emitting EXCEPT ![t] = rest] /\ UNCHANGED <<heard, emitted>>
      /\ \/ UNCHANGED <<deliveries, delivered>>
         \/ t = "gui" /\ delivered' = Append(delivered, d) /\ deliveries' = deliveries
         \/ t = "worker" /\ deliveries' = Append(deliveries, d) /\ delivered' = delivered
    BY <1>2 DEF Forward, Coming, Origins, DeliveryInv
<1>4. /\ IsDelivery(d, heard, origin) /\ d[3] = t
      /\ \A i \in 1..Len(delivered) : Older(delivered[i], d)
      /\ \A i \in 1..Len(deliveries) : Older(deliveries[i], d)
    BY <1>1, <1>2 DEF IsEmission, Coming
<1>5. /\ IsEmission(rest, t, deliveries, delivered, heard, origin)
      /\ Len(rest.left) = Len(e.left) - 1
      /\ \A k \in 1..Len(rest.left) : Older(d, Coming(rest, t, k))
  <2>1. rest.left = Tail(e.left)
      BY <1>1 DEF IsEmission
  <2>2. Len(rest.left) = Len(e.left) - 1
      BY <1>1, <1>2, <2>1, TailAt
  <2> QED
      BY <1>1, <2>2, RestIsEmission
<1>6. d \in Names \X Nat \X Origins
    BY <1>4 DEF IsDelivery
<1> HIDE DEF d, rest
<1>7. ArePosted(deliveries', delivered', heard, origin)
  <2>1. CASE UNCHANGED <<deliveries, delivered>>
      BY <1>1, <2>1
  <2>2. CASE t = "gui" /\ delivered' = Append(delivered, d) /\ deliveries' = deliveries
    <3>1. /\ delivered' \in Seq(Names \X Nat \X Origins) /\ Len(delivered) \in Nat /\ Len(delivered') = Len(delivered) + 1
          /\ \A i \in 1..Len(delivered) : delivered'[i] = delivered[i]
          /\ delivered'[Len(delivered) + 1] = d
        BY <1>1, <1>6, <2>2, AppendedAt DEF ArePosted
    <3>2. \A i \in 1..Len(delivered') : i \in 1..Len(delivered) \/ i = Len(delivered) + 1
        BY <3>1
    <3>3. \A j \in 1..Len(deliveries) : Older(d, deliveries[j])
        BY <1>1, <1>4, <2>2 DEF ArePosted, Older
    <3>4. \A i \in 1..Len(delivered'), j \in 1..Len(deliveries) : Older(delivered'[i], deliveries[j])
      <4> SUFFICES ASSUME NEW i \in 1..Len(delivered'), NEW j \in 1..Len(deliveries)
                   PROVE  Older(delivered'[i], deliveries[j])
          OBVIOUS
      <4> QED
          BY <1>1, <3>1, <3>2, <3>3 DEF ArePosted
    <3>5. \A i \in 1..Len(delivered') : IsDelivery(delivered'[i], heard, origin)
      <4> SUFFICES ASSUME NEW i \in 1..Len(delivered') PROVE IsDelivery(delivered'[i], heard, origin)
          OBVIOUS
      <4> QED
          BY <1>1, <1>4, <3>1, <3>2 DEF ArePosted
    <3>6. \A i, j \in 1..Len(delivered') : i < j => Older(delivered'[i], delivered'[j])
      <4> SUFFICES ASSUME NEW i \in 1..Len(delivered'), NEW j \in 1..Len(delivered'), i < j
                   PROVE  Older(delivered'[i], delivered'[j])
          OBVIOUS
      <4>1. i \in 1..Len(delivered) /\ delivered'[i] = delivered[i]
          BY <3>1, <3>2
      <4> QED
          BY <1>1, <1>4, <3>1, <3>2, <4>1 DEF ArePosted
    <3> QED
        BY <1>1, <2>2, <3>1, <3>4, <3>5, <3>6 DEF ArePosted
  <2>3. CASE t = "worker" /\ deliveries' = Append(deliveries, d) /\ delivered' = delivered
    <3>1. /\ deliveries' \in Seq(Names \X Nat \X Origins) /\ Len(deliveries) \in Nat /\ Len(deliveries') = Len(deliveries) + 1
          /\ \A i \in 1..Len(deliveries) : deliveries'[i] = deliveries[i]
          /\ deliveries'[Len(deliveries) + 1] = d
        BY <1>1, <1>6, <2>3, AppendedAt DEF ArePosted
    <3>2. \A i \in 1..Len(deliveries') : i \in 1..Len(deliveries) \/ i = Len(deliveries) + 1
        BY <3>1
    <3>3. \A i \in 1..Len(delivered), j \in 1..Len(deliveries') : Older(delivered[i], deliveries'[j])
      <4> SUFFICES ASSUME NEW i \in 1..Len(delivered), NEW j \in 1..Len(deliveries')
                   PROVE  Older(delivered[i], deliveries'[j])
          OBVIOUS
      <4> QED
          BY <1>1, <1>4, <3>1, <3>2 DEF ArePosted
    <3>4. \A i \in 1..Len(deliveries') : IsDelivery(deliveries'[i], heard, origin) /\ deliveries'[i][3] = "worker"
      <4> SUFFICES ASSUME NEW i \in 1..Len(deliveries')
                   PROVE  IsDelivery(deliveries'[i], heard, origin) /\ deliveries'[i][3] = "worker"
          OBVIOUS
      <4> QED
          BY <1>1, <1>4, <2>3, <3>1, <3>2 DEF ArePosted
    <3>5. \A i, j \in 1..Len(deliveries') : i < j => Older(deliveries'[i], deliveries'[j])
      <4> SUFFICES ASSUME NEW i \in 1..Len(deliveries'), NEW j \in 1..Len(deliveries'), i < j
                   PROVE  Older(deliveries'[i], deliveries'[j])
          OBVIOUS
      <4>1. i \in 1..Len(deliveries) /\ deliveries'[i] = deliveries[i]
          BY <3>1, <3>2
      <4> QED
          BY <1>1, <1>4, <3>1, <3>2, <4>1 DEF ArePosted
    <3> QED
        BY <1>1, <2>3, <3>1, <3>3, <3>4, <3>5 DEF ArePosted
  <2> QED
      BY <1>3, <2>1, <2>2, <2>3
<1>8. ASSUME NEW u \in Origins
      PROVE  IsEmission(emitting'[u], u, deliveries', delivered', heard, origin)
  <2> DEFINE eu == emitting'[u]
  <2>1. IsEmission(eu, u, deliveries, delivered, heard, origin)
      BY <1>3, <1>5 DEF DeliveryInv
  <2>2. ASSUME NEW k \in 1..Len(eu.left) PROVE Older(d, Coming(eu, u, k))
    <3>1. CASE u = t
      <4>1. eu = rest
          BY <1>3, <3>1 DEF DeliveryInv
      <4> QED
          BY <1>5, <3>1, <4>1
    <3>2. CASE u # t
      <4>1. Coming(eu, u, k)[3] = u
          BY DEF Coming
      <4> QED
          BY <1>4, <3>2, <4>1 DEF Older
    <3> QED
        BY <3>1, <3>2
  <2> HIDE DEF eu
  <2>3. ASSUME NEW k \in 1..Len(eu.left)
        PROVE  /\ \A i \in 1..Len(delivered') : Older(delivered'[i], Coming(eu, u, k))
               /\ \A i \in 1..Len(deliveries') : Older(deliveries'[i], Coming(eu, u, k))
    <3>1. /\ \A i \in 1..Len(delivered) : Older(delivered[i], Coming(eu, u, k))
          /\ \A i \in 1..Len(deliveries) : Older(deliveries[i], Coming(eu, u, k))
        BY <2>1 DEF IsEmission
    <3>2. /\ delivered \in Seq(Names \X Nat \X Origins) /\ deliveries \in Seq(Names \X Nat \X Origins)
        BY <1>1 DEF ArePosted
    <3>3. CASE delivered' = Append(delivered, d) /\ deliveries' = deliveries
      <4>1. \A i \in 1..Len(delivered') : delivered'[i] = d \/ (i \in 1..Len(delivered) /\ delivered'[i] = delivered[i])
          BY <1>6, <3>2, <3>3, AppendedAt
      <4> QED
          BY <2>2, <3>1, <3>3, <4>1
    <3>4. CASE deliveries' = Append(deliveries, d) /\ delivered' = delivered
      <4>1. \A i \in 1..Len(deliveries') : deliveries'[i] = d \/ (i \in 1..Len(deliveries) /\ deliveries'[i] = deliveries[i])
          BY <1>6, <3>2, <3>4, AppendedAt
      <4> QED
          BY <2>2, <3>1, <3>4, <4>1
    <3> QED
        BY <1>3, <3>1, <3>3, <3>4
  <2>4. IsEmission(eu, u, deliveries', delivered', heard, origin)
      BY <2>1, <2>3 DEF IsEmission
  <2> QED
      BY <2>4 DEF eu
<1>9. emitting' = [u \in Origins |-> emitting'[u]]
    BY <1>3 DEF DeliveryInv
<1> QED
    BY <1>3, <1>7, <1>8, <1>9 DEF DeliveryInv

LEMMA EmitReturnsKeeps ==
    ASSUME NEW origin, DeliveryInv(origin), NEW t \in Origins, EmitReturns(t)
    PROVE  DeliveryInv(origin)'
<1>1. emitting' = [emitting EXCEPT ![t] = Quiet] /\ UNCHANGED <<deliveries, delivered, heard, emitted>>
    BY DEF EmitReturns
<1>2. IsEmission(Quiet, t, deliveries, delivered, heard, origin)
  <2>1. Quiet \in [event : Nat, left : Seq(Names)] /\ Len(Quiet.left) = 0
      BY DEF Quiet
  <2> QED
      BY <2>1 DEF IsEmission
<1>3. \A u \in Origins : IsEmission(emitting'[u], u, deliveries, delivered, heard, origin)
    BY <1>1, <1>2 DEF DeliveryInv
<1>4. emitting' = [u \in Origins |-> emitting'[u]]
    BY <1>1 DEF DeliveryInv
<1> QED
    BY <1>1, <1>3, <1>4 DEF DeliveryInv

\* The oldest that is posted runs.
LEMMA OnDeliverKeeps ==
    ASSUME NEW origin, DeliveryInv(origin), OnDeliver
    PROVE  DeliveryInv(origin)'
<1> DEFINE d == deliveries[1]
           D == Names \X Nat \X Origins
<1>1. /\ delivered' = Append(delivered, Head(deliveries)) /\ deliveries' = Tail(deliveries) /\ deliveries # <<>>
      /\ UNCHANGED <<emitting, heard, emitted>>
      /\ ArePosted(deliveries, delivered, heard, origin)
    BY DEF OnDeliver, DeliveryInv
<1>2. deliveries \in Seq(D) /\ delivered \in Seq(D)
    BY <1>1 DEF ArePosted
<1>3. /\ deliveries' \in Seq(D) /\ Len(deliveries) \in Nat \ {0} /\ Len(deliveries') = Len(deliveries) - 1
      /\ \A i \in 1..Len(deliveries) - 1 : deliveries'[i] = deliveries[i + 1]
      /\ Head(deliveries) = d /\ d \in D
    BY <1>1, <1>2, TailAt
<1>4. /\ delivered' \in Seq(D) /\ Len(delivered) \in Nat /\ Len(delivered') = Len(delivered) + 1
      /\ \A i \in 1..Len(delivered) : delivered'[i] = delivered[i]
      /\ delivered'[Len(delivered) + 1] = d
    BY <1>1, <1>2, <1>3, AppendedAt
<1> HIDE DEF d, D
<1>5. \A i \in 1..Len(delivered') :
        \/ i \in 1..Len(delivered) /\ delivered'[i] = delivered[i]
        \/ i = Len(delivered) + 1 /\ delivered'[i] = d
    BY <1>4
<1>6. \A j \in 1..Len(deliveries') : j + 1 \in 1..Len(deliveries) /\ deliveries'[j] = deliveries[j + 1]
    BY <1>3
<1>7. 1 \in 1..Len(deliveries) /\ d = deliveries[1]
    BY <1>3 DEF d
<1>8. ArePosted(deliveries', delivered', heard, origin)
  <2>1. \A i \in 1..Len(delivered') : IsDelivery(delivered'[i], heard, origin)
      BY <1>1, <1>5, <1>7 DEF ArePosted
  <2>2. \A i \in 1..Len(deliveries') : IsDelivery(deliveries'[i], heard, origin) /\ deliveries'[i][3] = "worker"
      BY <1>1, <1>6 DEF ArePosted
  <2>3. \A i, j \in 1..Len(delivered') : i < j => Older(delivered'[i], delivered'[j])
    <3> SUFFICES ASSUME NEW i \in 1..Len(delivered'), NEW j \in 1..Len(delivered'), i < j
                 PROVE  Older(delivered'[i], delivered'[j])
        OBVIOUS
    <3>1. i \in 1..Len(delivered) /\ delivered'[i] = delivered[i]
        BY <1>4, <1>5
    <3> QED
        BY <1>1, <1>5, <1>7, <3>1 DEF ArePosted
  <2>4. \A i, j \in 1..Len(deliveries') : i < j => Older(deliveries'[i], deliveries'[j])
    <3> SUFFICES ASSUME NEW i \in 1..Len(deliveries'), NEW j \in 1..Len(deliveries'), i < j
                 PROVE  Older(deliveries'[i], deliveries'[j])
        OBVIOUS
    <3>1. i + 1 < j + 1
        BY <1>3
    <3> QED
        BY <1>1, <1>6, <3>1 DEF ArePosted
  <2>5. \A i \in 1..Len(delivered'), j \in 1..Len(deliveries') : Older(delivered'[i], deliveries'[j])
    <3> SUFFICES ASSUME NEW i \in 1..Len(delivered'), NEW j \in 1..Len(deliveries')
                 PROVE  Older(delivered'[i], deliveries'[j])
        OBVIOUS
    <3>1. 1 < j + 1
        BY <1>3
    <3> QED
        BY <1>1, <1>5, <1>6, <1>7, <3>1 DEF ArePosted
  <2> QED
      BY <1>3, <1>4, <2>1, <2>2, <2>3, <2>4, <2>5 DEF ArePosted, D
<1>9. ASSUME NEW u \in Origins
      PROVE  IsEmission(emitting[u], u, deliveries', delivered', heard, origin)
  <2> DEFINE e == emitting[u]
  <2>1. IsEmission(e, u, deliveries, delivered, heard, origin)
      BY DEF DeliveryInv
  <2> HIDE DEF e
  <2>2. ASSUME NEW k \in 1..Len(e.left)
        PROVE  /\ \A i \in 1..Len(delivered') : Older(delivered'[i], Coming(e, u, k))
               /\ \A i \in 1..Len(deliveries') : Older(deliveries'[i], Coming(e, u, k))
      BY <1>5, <1>6, <1>7, <2>1 DEF IsEmission
  <2>3. IsEmission(e, u, deliveries', delivered', heard, origin)
      BY <2>1, <2>2 DEF IsEmission
  <2> QED
      BY <2>3 DEF e
<1> QED
    BY <1>1, <1>8, <1>9 DEF DeliveryInv

LEMMA ScreensNextInv == ScreensInv /\ [ScreensNext]_screensVars => ScreensInv'
<1> SUFFICES ASSUME ScreensInv, [ScreensNext]_screensVars PROVE ScreensInv'
    OBVIOUS
<1>1. PICK origin : DeliveryInv(origin)
    BY DEF ScreensInv
<1>2. ManagingInv
    BY DEF ScreensInv
<1>3. CASE UNCHANGED screensVars
    BY <1>1, <1>2, <1>3, ManagingStays, DeliveryStays DEF ScreensInv, screensVars
<1>4. ASSUME NEW s \in Names,
             NavigateTo(s) \/ ConstructorRaises(s) \/ Resubscribe(s) \/ DisposePresenter(s) \/ FreePresenter(s)
      PROVE  ScreensInv'
  <2>1. ManagingInv'
      BY <1>2, <1>4, NavigateKeeps, ResubscribeKeeps, DisposeKeeps, FreeKeeps, ManagingStays DEF ConstructorRaises
  <2>2. UNCHANGED delivery
      BY <1>4 DEF NavigateTo, ConstructorRaises, Resubscribe, DisposePresenter, FreePresenter
  <2> QED
      BY <1>1, <2>1, <2>2, DeliveryStays DEF ScreensInv
<1>5. CASE ShutdownAll \/ ShutdownReturns \/ \E b \in BOOLEAN : TeardownNext(b)
  <2>1. ManagingInv'
      BY <1>2, <1>5, ShutdownAllKeeps, ShutdownReturnsKeeps, TeardownKeeps
  <2>2. UNCHANGED delivery
      BY <1>5 DEF ShutdownAll, ShutdownReturns, TeardownNext
  <2> QED
      BY <1>1, <2>1, <2>2, DeliveryStays DEF ScreensInv
<1>6. ASSUME NEW t \in Origins, EmitEvent(t) \/ Forward(t) \/ EmitReturns(t) \/ OnDeliver PROVE ScreensInv'
  <2>1. ManagingInv'
      BY <1>2, <1>6, ManagingStays DEF EmitEvent, Forward, EmitReturns, OnDeliver
  <2>2. \E later : DeliveryInv(later)'
      BY <1>1, <1>2, <1>6, EmitKeeps, ForwardKeeps, EmitReturnsKeeps, OnDeliverKeeps
  <2> QED
      BY <2>1, <2>2 DEF ScreensInv
<1>7. CASE ScreensNext
  <2>1. "gui" \in Origins
      BY DEF Origins
  <2> QED
      BY <1>4, <1>5, <1>6, <1>7, <2>1 DEF ScreensNext
<1> QED
    BY <1>3, <1>7

LEMMA PresentersAreKept == ScreensInv => PresentersKept
<1> SUFFICES ASSUME ScreensInv PROVE PresentersKept
    OBVIOUS
<1>1. PICK origin : DeliveryInv(origin)
    BY DEF ScreensInv
<1>2. ArePosted(deliveries, delivered, heard, origin)
    BY <1>1 DEF DeliveryInv
<1>3. DOMAIN delivered = 1..Len(delivered) /\ \A i \in 1..Len(delivered) : delivered[i] \in Names \X Nat \X Origins
    BY <1>2 DEF ArePosted
<1>4. HeardOnce
  <2>1. ASSUME NEW i \in 1..Len(delivered), NEW j \in 1..Len(delivered), i < j, delivered[i][1] = delivered[j][1]
        PROVE  /\ delivered[i][2] # delivered[j][2]
               /\ delivered[i][3] = delivered[j][3] => delivered[i][2] < delivered[j][2]
    <3>1. Older(delivered[i], delivered[j]) /\ IsDelivery(delivered[i], heard, origin) /\ IsDelivery(delivered[j], heard, origin)
        BY <1>2, <2>1 DEF ArePosted
    <3>2. delivered[i][2] \in Nat /\ delivered[j][2] \in Nat
        BY <1>3
    <3>3. delivered[i][2] = delivered[j][2] => delivered[i][3] = delivered[j][3]
        BY <3>1 DEF IsDelivery
    <3> QED
        BY <2>1, <3>1, <3>2, <3>3 DEF Older
  <2>2. \A i \in 1..Len(delivered) : delivered[i][1] \in heard[delivered[i][2]]
      BY <1>2 DEF ArePosted, IsDelivery
  <2> QED
      BY <1>3, <2>1, <2>2 DEF HeardOnce
<1>5. TornDownOnce
  <2>1. ManagingInv
      BY DEF ScreensInv
  <2>2. bus \in Seq(Names) /\ ToSet(bus) = {bus[i] : i \in 1..Len(bus)}
      BY <2>1 DEF ManagingInv, ScreensTypeInv, ToSet
  <2>3. ToSet(bus) = forwarders
      BY <2>1, <2>2 DEF ManagingInv, BusInv
  <2> QED
      BY <2>1, <2>3 DEF TornDownOnce, ManagingInv, ScreensTypeInv, BusInv, TeardownInv
<1> QED
    BY <1>4, <1>5 DEF PresentersKept

\* A presenter hears each event at most once, in order and only while it subscribed, and is
\* disposed exactly once, whoever raises (presenter_manager.py, qt_event_bridge.py).
THEOREM ScreensCorrect == ScreensSpec => []PresentersKept
BY ScreensInitInv, ScreensNextInv, PresentersAreKept, PTL DEF ScreensSpec

----------------------------------------------------------------------------
(* UiThread: a freeze is a gap between heartbeats, told once. *)

Loops == {"none", "sleeping", "late", "counting", "callback", "ended"}

WatchTypeInv ==
    /\ now \in Nat /\ beat \in 0..now /\ starts \in 0..MaxStarts /\ count \in Nat /\ gaps \in Nat
    /\ watching \in BOOLEAN /\ frozen \in BOOLEAN /\ stopping \in BOOLEAN /\ overtaken \in BOOLEAN
    /\ monitor \in [Monitors -> Loops]

\* The monitor that was started last.
Loop == IF starts = 0 THEN "ended" ELSE monitor[starts]

\* One monitor at a time: the others have ended.
OneMonitor ==
    /\ \A m \in Monitors : (m < starts => monitor[m] = "ended") /\ (m > starts => monitor[m] = "none")
    /\ watching => ~stopping
    /\ ~watching /\ ~stopping => Loop = "ended"

\* A gap is counted, about to be, or still to be noticed; what is noticed is not over.
GapsAreOwed ==
    /\ count + (IF Loop \in {"late", "counting"} THEN 1 ELSE 0)
             + (IF watching /\ Late /\ ~frozen /\ Loop # "late" THEN 1 ELSE 0) <= gaps
    /\ watching /\ (frozen \/ Loop = "late") => Late

WatchInv == WatchTypeInv /\ (~overtaken => OneMonitor /\ GapsAreOwed)

LEMMA WatchInitInv == GuiInit => WatchInv
<1> SUFFICES ASSUME GuiInit PROVE WatchInv
    OBVIOUS
<1>1. WatchTypeInv
  <2>1. monitor \in [Monitors -> Loops]
      BY DEF GuiInit, Loops
  <2>2. starts \in 0..MaxStarts /\ beat \in 0..now /\ now \in Nat /\ count \in Nat /\ gaps \in Nat
      BY WatchAssumption DEF GuiInit
  <2> QED
      BY <2>1, <2>2 DEF GuiInit, WatchTypeInv
<1>2. Loop = "ended"
    BY DEF GuiInit, Loop
<1>3. OneMonitor
    BY <1>2 DEF GuiInit, OneMonitor, Monitors
<1>4. GapsAreOwed
    BY <1>2 DEF GuiInit, GapsAreOwed
<1> QED
    BY <1>1, <1>3, <1>4 DEF WatchInv

LEMMA TickKeeps == WatchInv /\ Tick => WatchInv'
<1> SUFFICES ASSUME WatchInv, Tick PROVE WatchInv'
    OBVIOUS
<1>1. /\ now' = now + 1 /\ gaps' = gaps + (IF now' - beat = Threshold + 1 THEN 1 ELSE 0)
      /\ UNCHANGED <<watching, beat, frozen, monitor, stopping, starts, count, overtaken>>
    BY DEF Tick
<1>2. WatchTypeInv'
    BY <1>1 DEF WatchInv, WatchTypeInv
<1>3. (Late => Late') /\ (Late' => Late \/ gaps' = gaps + 1) /\ gaps' >= gaps
    BY <1>1, WatchAssumption DEF WatchInv, WatchTypeInv, Late
<1>4. Loop' = Loop /\ (OneMonitor => OneMonitor')
    BY <1>1 DEF Loop, OneMonitor
<1>5. ASSUME GapsAreOwed PROVE GapsAreOwed'
    BY <1>1, <1>3, <1>4, <1>5 DEF GapsAreOwed, WatchInv, WatchTypeInv
<1> QED
    BY <1>1, <1>2, <1>4, <1>5 DEF WatchInv

LEMMA StartKeeps == WatchInv /\ StartWatch => WatchInv'
<1> SUFFICES ASSUME WatchInv, StartWatch PROVE WatchInv'
    OBVIOUS
<1>1. /\ ~watching /\ ~stopping /\ starts < MaxStarts /\ starts' = starts + 1
      /\ watching' = TRUE /\ frozen' = FALSE /\ beat' = now
      /\ monitor' = [monitor EXCEPT ![starts'] = "sleeping"]
      /\ UNCHANGED <<now, stopping, count, gaps, overtaken>>
    BY DEF StartWatch, Responsive
<1>2. starts' \in 1..MaxStarts /\ starts' \in Monitors /\ starts' # 0
    BY <1>1, WatchAssumption DEF WatchInv, WatchTypeInv, Monitors
<1>3. WatchTypeInv'
  <2>1. monitor' \in [Monitors -> Loops]
      BY <1>1, <1>2 DEF WatchInv, WatchTypeInv, Loops
  <2>2. starts' \in 0..MaxStarts /\ beat' \in 0..now'
      BY <1>1, <1>2, WatchAssumption DEF WatchInv, WatchTypeInv
  <2> QED
      BY <1>1, <2>1, <2>2 DEF WatchInv, WatchTypeInv
<1>4. Loop' = "sleeping" /\ ~Late'
    BY <1>1, <1>2, WatchAssumption DEF Loop, Late, WatchInv, WatchTypeInv
<1>5. ASSUME OneMonitor PROVE OneMonitor'
  <2>1. \A m \in Monitors : m < starts' => m < starts \/ m = starts
      BY <1>1 DEF Monitors, WatchInv, WatchTypeInv
  <2>2. \A m \in Monitors : m < starts' => monitor'[m] = "ended"
      BY <1>1, <1>2, <1>5, <2>1 DEF OneMonitor, Loop, WatchInv, WatchTypeInv, Monitors
  <2>3. \A m \in Monitors : m > starts' => monitor'[m] = "none"
      BY <1>1, <1>2, <1>5 DEF OneMonitor, WatchInv, WatchTypeInv, Monitors
  <2> QED
      BY <1>1, <2>2, <2>3 DEF OneMonitor
<1>6. ASSUME GapsAreOwed PROVE GapsAreOwed'
    BY <1>1, <1>4, <1>6 DEF GapsAreOwed, WatchInv, WatchTypeInv
<1> QED
    BY <1>1, <1>3, <1>5, <1>6 DEF WatchInv

LEMMA StopKeeps == WatchInv /\ (StopWatch \/ StopWatchReturns) => WatchInv'
<1> SUFFICES ASSUME WatchInv, StopWatch \/ StopWatchReturns PROVE WatchInv'
    OBVIOUS
<1>1. UNCHANGED <<now, beat, frozen, monitor, starts, count, gaps>>
    BY DEF StopWatch, StopWatchReturns
<1>2. Loop' = Loop /\ Late' = Late
    BY <1>1 DEF Loop, Late
<1>3. CASE StopWatch
  <2>1. watching /\ watching' = FALSE /\ stopping' = TRUE /\ overtaken' = overtaken
      BY <1>3 DEF StopWatch
  <2>2. WatchTypeInv'
      BY <1>1, <2>1 DEF WatchInv, WatchTypeInv
  <2>3. OneMonitor => OneMonitor'
      BY <1>1, <1>2, <2>1 DEF OneMonitor
  <2>4. ASSUME GapsAreOwed PROVE GapsAreOwed'
      BY <1>1, <1>2, <2>1, <2>4 DEF GapsAreOwed, WatchInv, WatchTypeInv
  <2> QED
      BY <2>1, <2>2, <2>3, <2>4 DEF WatchInv
<1>4. CASE StopWatchReturns
  <2>1. /\ stopping /\ monitor[starts] \in {"ended", "callback"} /\ stopping' = FALSE /\ watching' = watching
        /\ overtaken' = (overtaken \/ monitor[starts] = "callback")
      BY <1>4 DEF StopWatchReturns
  <2>2. ~overtaken' => ~overtaken /\ Loop = "ended"
      BY <2>1 DEF Loop
  <2>3. WatchTypeInv'
      BY <1>1, <2>1 DEF WatchInv, WatchTypeInv
  <2> QED
      BY <1>1, <1>2, <2>1, <2>2, <2>3 DEF WatchInv, OneMonitor, GapsAreOwed
<1> QED
    BY <1>3, <1>4

LEMMA HeartbeatKeeps == WatchInv /\ Heartbeat => WatchInv'
<1> SUFFICES ASSUME WatchInv, Heartbeat PROVE WatchInv'
    OBVIOUS
<1> DEFINE noticed == \E m \in Monitors : monitor[m] = "late"
<1>1. /\ beat' = now /\ frozen' = FALSE /\ UNCHANGED <<now, watching, monitor, stopping, starts, count, gaps>>
      /\ overtaken' = (overtaken \/ noticed)
    BY DEF Heartbeat
<1>5. Loop = "late" => noticed
    BY DEF Loop, WatchInv, WatchTypeInv, Monitors
<1> HIDE DEF noticed
<1>2. WatchTypeInv'
  <2>1. overtaken' \in BOOLEAN
      BY <1>1
  <2>2. beat' \in 0..now'
      BY <1>1 DEF WatchInv, WatchTypeInv
  <2> QED
      BY <1>1, <2>1, <2>2 DEF WatchInv, WatchTypeInv
<1>3. Loop' = Loop /\ ~Late'
    BY <1>1, WatchAssumption DEF Loop, Late, WatchInv, WatchTypeInv
<1>4. ~overtaken' => ~overtaken /\ Loop # "late"
    BY <1>1, <1>5
<1> QED
    BY <1>1, <1>2, <1>3, <1>4 DEF WatchInv, WatchTypeInv, OneMonitor, GapsAreOwed

\* A monitor's step moves it from one place of its loop to the next, and it is the last one.
LEMMA MonitorMoves ==
    ASSUME WatchInv, NEW m \in Monitors, NEW there \in Loops \ {"none"},
           monitor[m] \notin {"none", "ended"}, monitor' = [monitor EXCEPT ![m] = there],
           UNCHANGED <<now, watching, beat, stopping, starts, overtaken>>,
           there = "ended" => ~watching
    PROVE  /\ monitor' \in [Monitors -> Loops] /\ Late' = Late
           /\ ~overtaken => /\ m = starts /\ Loop = monitor[m] /\ Loop' = there
                            /\ (OneMonitor => OneMonitor')
<1>1. monitor' \in [Monitors -> Loops] /\ Late' = Late
    BY DEF WatchInv, WatchTypeInv, Late
<1>2. ASSUME ~overtaken PROVE m = starts /\ Loop = monitor[m] /\ Loop' = there /\ OneMonitor'
  <2>1. m = starts /\ starts # 0
      BY <1>2, WatchAssumption DEF WatchInv, WatchTypeInv, OneMonitor, Monitors
  <2>2. Loop = monitor[m] /\ Loop' = there
      BY <2>1 DEF Loop, WatchInv, WatchTypeInv
  <2>3. OneMonitor /\ (~watching => stopping)
      BY <1>2, <2>2 DEF WatchInv, OneMonitor, WatchTypeInv
  <2>4. \A n \in Monitors : n # starts => monitor'[n] = monitor[n]
      BY <2>1 DEF WatchInv, WatchTypeInv
  <2>5. \A n \in Monitors : (n < starts => monitor'[n] = "ended") /\ (n > starts => monitor'[n] = "none")
      BY <2>3, <2>4 DEF OneMonitor, Monitors, WatchInv, WatchTypeInv
  <2> QED
      BY <2>1, <2>2, <2>3, <2>5 DEF OneMonitor
<1> QED
    BY <1>1, <1>2

LEMMA MonitorKeeps ==
    ASSUME WatchInv, NEW m \in Monitors,
           CheckBeat(m) \/ SetFrozen(m) \/ HandleFreeze(m) \/ CallbackReturns(m)
    PROVE  WatchInv'
<1> USE DEF Loops
<1>1. CASE CheckBeat(m)
  <2> DEFINE there == IF ~watching THEN "ended" ELSE IF Unreported THEN "late" ELSE "sleeping"
  <2>1. /\ monitor[m] = "sleeping" /\ monitor' = [monitor EXCEPT ![m] = there]
        /\ UNCHANGED <<now, watching, beat, frozen, stopping, starts, count, gaps, overtaken>>
      BY <1>1 DEF CheckBeat
  <2>2. there \in Loops \ {"none"} /\ (there = "ended" => ~watching) /\ (there = "late" => watching /\ Late /\ ~frozen)
      BY DEF Unreported
  <2> HIDE DEF there
  <2>3. /\ monitor' \in [Monitors -> Loops] /\ Late' = Late
        /\ ~overtaken => Loop = "sleeping" /\ Loop' = there /\ (OneMonitor => OneMonitor')
      BY <2>1, <2>2, MonitorMoves
  <2>4. there # "counting"
      BY DEF there
  <2>5. ASSUME ~overtaken PROVE GapsAreOwed'
      BY <2>1, <2>2, <2>3, <2>4, <2>5 DEF WatchInv, WatchTypeInv, GapsAreOwed
  <2> QED
      BY <2>1, <2>3, <2>5 DEF WatchInv, WatchTypeInv
<1>2. CASE SetFrozen(m)
  <2> DEFINE there == "counting"
  <2>1. /\ monitor[m] = "late" /\ monitor' = [monitor EXCEPT ![m] = there] /\ frozen' = TRUE
        /\ UNCHANGED <<now, watching, beat, stopping, starts, count, gaps, overtaken>>
      BY <1>2 DEF SetFrozen
  <2>2. /\ monitor' \in [Monitors -> Loops] /\ Late' = Late
        /\ ~overtaken => Loop = "late" /\ Loop' = "counting" /\ (OneMonitor => OneMonitor')
    <3>1. there \in Loops \ {"none"} /\ there # "ended" /\ there = "counting"
        OBVIOUS
    <3> HIDE DEF there
    <3>2. monitor' \in [Monitors -> Loops] /\ Late' = Late
        BY <2>1, <3>1 DEF WatchInv, WatchTypeInv, Late
    <3>3. ~overtaken => m = starts /\ Loop = monitor[m] /\ Loop' = there /\ (OneMonitor => OneMonitor')
        BY <2>1, <3>1, MonitorMoves
    <3> QED
        BY <2>1, <3>1, <3>2, <3>3
  <2>3. ASSUME ~overtaken PROVE GapsAreOwed'
      BY <2>1, <2>2, <2>3 DEF WatchInv, WatchTypeInv, GapsAreOwed
  <2> QED
      BY <2>1, <2>2, <2>3 DEF WatchInv, WatchTypeInv
<1>3. CASE HandleFreeze(m)
  <2> DEFINE there == "callback"
  <2>1. /\ monitor[m] = "counting" /\ monitor' = [monitor EXCEPT ![m] = there] /\ count' = count + 1
        /\ UNCHANGED <<now, watching, beat, frozen, stopping, starts, gaps, overtaken>>
      BY <1>3 DEF HandleFreeze
  <2>2. /\ monitor' \in [Monitors -> Loops] /\ Late' = Late
        /\ ~overtaken => Loop = "counting" /\ Loop' = "callback" /\ (OneMonitor => OneMonitor')
    <3>1. there \in Loops \ {"none"} /\ there # "ended" /\ there = "callback"
        OBVIOUS
    <3> HIDE DEF there
    <3>2. monitor' \in [Monitors -> Loops] /\ Late' = Late
        BY <2>1, <3>1 DEF WatchInv, WatchTypeInv, Late
    <3>3. ~overtaken => m = starts /\ Loop = monitor[m] /\ Loop' = there /\ (OneMonitor => OneMonitor')
        BY <2>1, <3>1, MonitorMoves
    <3> QED
        BY <2>1, <3>1, <3>2, <3>3
  <2>3. ASSUME ~overtaken PROVE GapsAreOwed'
      BY <2>1, <2>2, <2>3 DEF WatchInv, WatchTypeInv, GapsAreOwed
  <2> QED
      BY <2>1, <2>2, <2>3 DEF WatchInv, WatchTypeInv
<1>4. CASE CallbackReturns(m)
  <2> DEFINE there == IF watching THEN "sleeping" ELSE "ended"
  <2>1. /\ monitor[m] = "callback" /\ monitor' = [monitor EXCEPT ![m] = there]
        /\ UNCHANGED <<now, watching, beat, frozen, stopping, starts, count, gaps, overtaken>>
      BY <1>4 DEF CallbackReturns
  <2>2. there \in {"sleeping", "ended"} /\ (there = "ended" => ~watching)
      OBVIOUS
  <2> HIDE DEF there
  <2>3. /\ monitor' \in [Monitors -> Loops] /\ Late' = Late
        /\ ~overtaken => Loop = "callback" /\ Loop' = there /\ (OneMonitor => OneMonitor')
      BY <2>1, <2>2, MonitorMoves
  <2>4. ASSUME ~overtaken PROVE GapsAreOwed'
      BY <2>1, <2>2, <2>3, <2>4 DEF WatchInv, WatchTypeInv, GapsAreOwed
  <2> QED
      BY <2>1, <2>3, <2>4 DEF WatchInv, WatchTypeInv
<1> QED
    BY <1>1, <1>2, <1>3, <1>4

LEMMA WatchStays == WatchInv /\ UNCHANGED <<now, watch>> => WatchInv'
BY DEF watch, WatchInv, WatchTypeInv, OneMonitor, GapsAreOwed, Loop, Late

\* A call is by its number; what became of it.
Calls == ((Workers \cup {"gui"}) \X Nat) \X {"ran", "raised", "queued", "stray"}

NotByGui == {i \in 1..Len(mutations) : mutations[i][1][1] # "gui"}
NotRaised == {i \in 1..Len(mutations) : mutations[i][2] # "raised"}

\* Only an unguarded method strays, only calls of a guarded one are counted.
StrayInv ==
    /\ mutations \in Seq(Calls) /\ offThread \in Nat
    /\ \A i \in 1..Len(mutations) : mutations[i][2] = "stray" => ~Guarded
    /\ offThread > 0 => Guarded

\* Of one thread, call c was made before call d.
Sooner(c, d) == c[1] = d[1] => c[2] < d[2]

\* What is posted was made by other threads, after what those had performed.
QueueInv ==
    /\ posted \in Seq((Workers \cup {"gui"}) \X Nat) /\ performed \in Seq((Workers \cup {"gui"}) \X Nat)
    /\ \A i \in 1..Len(posted) : posted[i][1] # "gui" /\ posted[i][2] <= Len(mutations)
    /\ \A i \in 1..Len(performed) : performed[i][2] <= Len(mutations) /\ (dev => performed[i][1] = "gui")
    /\ dev => posted = <<>>
    /\ \A i, j \in 1..Len(performed) : i < j => Sooner(performed[i], performed[j])
    /\ \A i, j \in 1..Len(posted) : i < j => Sooner(posted[i], posted[j])
    /\ \A i \in 1..Len(performed), j \in 1..Len(posted) : Sooner(performed[i], posted[j])
    /\ offThread = Cardinality(NotByGui)
    /\ Len(performed) + Len(posted) = Cardinality(NotRaised)

MutatorInv == StrayInv /\ (Guarded => QueueInv)

LEMMA MutatorInitInv == GuiInit => MutatorInv
<1> SUFFICES ASSUME GuiInit PROVE MutatorInv
    OBVIOUS
<1>1. mutations = <<>> /\ posted = <<>> /\ performed = <<>> /\ offThread = 0
    BY DEF GuiInit
<1>2. NotByGui = {} /\ NotRaised = {}
    BY <1>1 DEF NotByGui, NotRaised
<1> QED
    BY <1>1, <1>2, FS_EmptySet DEF MutatorInv, StrayInv, QueueInv

\* One more number with a property, or none.
LEMMA OneMore ==
    ASSUME NEW n \in Nat, NEW S \in SUBSET (1..n), NEW T, T = S \cup {n + 1}
    PROVE  Cardinality(T) = Cardinality(S) + 1 /\ Cardinality(S) \in Nat
<1>1. IsFiniteSet(1..n)
    BY FS_Interval
<1>2. IsFiniteSet(S)
    BY <1>1, FS_Subset
<1>3. n + 1 \notin S
    OBVIOUS
<1> QED
    BY <1>2, <1>3, FS_AddElement, FS_CardinalityType

LEMMA CallKeeps ==
    ASSUME MutatorInv, NEW t \in Workers \cup {"gui"}, CallMutator(t) PROVE MutatorInv'
<1> DEFINE n == Len(mutations)
           c == <<t, n + 1>>
           C == (Workers \cup {"gui"}) \X Nat
<1>1. PICK how \in {"ran", "raised", "queued", "stray"} :
        /\ mutations' = Append(mutations, <<c, how>>) /\ UNCHANGED <<method, dev>>
        /\ how = "ran" => t = "gui" /\ performed' = Append(performed, c) /\ UNCHANGED <<posted, offThread>>
        /\ how = "stray" => t # "gui" /\ ~Guarded /\ UNCHANGED <<posted, offThread>>
        /\ how = "raised" => t # "gui" /\ Guarded /\ dev /\ offThread' = offThread + 1 /\ UNCHANGED <<performed, posted>>
        /\ how = "queued" => /\ t # "gui" /\ Guarded /\ ~dev /\ offThread' = offThread + 1
                             /\ posted' = Append(posted, c) /\ UNCHANGED performed
  <2>1. UNCHANGED <<method, dev>>
      BY DEF CallMutator
  <2>2. CASE t = "gui"
      BY <2>1, <2>2 DEF CallMutator, Noted
  <2>3. CASE t # "gui" /\ ~Guarded
      BY <2>1, <2>3 DEF CallMutator, Noted
  <2>4. CASE t # "gui" /\ Guarded /\ dev
      BY <2>1, <2>4 DEF CallMutator, Noted
  <2>5. CASE t # "gui" /\ Guarded /\ ~dev
      BY <2>1, <2>5 DEF CallMutator, Noted, Marshalled
  <2> QED
      BY <2>2, <2>3, <2>4, <2>5
<1>2. c \in C /\ <<c, how>> \in Calls /\ n \in Nat /\ mutations \in Seq(Calls)
    BY DEF Calls, MutatorInv, StrayInv
<1>3. /\ mutations' \in Seq(Calls) /\ Len(mutations') = n + 1
      /\ \A i \in 1..n : mutations'[i] = mutations[i]
      /\ mutations'[n + 1] = <<c, how>>
    BY <1>1, <1>2, AppendedAt
<1>4. \A i \in 1..n + 1 : i \in 1..n \/ i = n + 1
    BY <1>2
<1>5. Guarded' = Guarded /\ dev' = dev
    BY <1>1 DEF Guarded
<1>6. c[1] = t /\ c[2] = n + 1 /\ <<c, how>>[1] = c /\ <<c, how>>[2] = how
    OBVIOUS
<1> HIDE DEF c
<1>7. StrayInv'
  <2>1. \A i \in 1..n + 1 : mutations'[i][2] = "stray" => ~Guarded
    <3> SUFFICES ASSUME NEW i \in 1..n + 1, mutations'[i][2] = "stray" PROVE ~Guarded
        OBVIOUS
    <3> QED
        BY <1>1, <1>3, <1>4, <1>6 DEF MutatorInv, StrayInv
  <2>2. offThread' \in Nat /\ (offThread' > 0 => Guarded)
      BY <1>1 DEF MutatorInv, StrayInv
  <2> QED
      BY <1>3, <1>5, <2>1, <2>2 DEF StrayInv
<1>8. ASSUME Guarded PROVE QueueInv'
  <2>1. QueueInv /\ how # "stray"
      BY <1>1, <1>8 DEF MutatorInv
  <2>2. /\ posted \in Seq(C) /\ performed \in Seq(C) /\ Len(posted) \in Nat /\ Len(performed) \in Nat
      BY <2>1 DEF QueueInv
  <2>3. /\ \A i \in 1..Len(posted) : posted[i] \in C /\ posted[i][2] \in Nat /\ posted[i][2] < n + 1
        /\ \A i \in 1..Len(performed) : performed[i] \in C /\ performed[i][2] \in Nat /\ performed[i][2] < n + 1
    <3>1. /\ \A i \in 1..Len(posted) : posted[i][2] <= n
          /\ \A i \in 1..Len(performed) : performed[i][2] <= n
        BY <2>1 DEF QueueInv
    <3>2. /\ \A i \in 1..Len(posted) : posted[i] \in C
          /\ \A i \in 1..Len(performed) : performed[i] \in C
        BY <2>2
    <3>3. \A x \in C : x[2] \in Nat /\ (x[2] <= n => x[2] < n + 1)
        BY <1>2
    <3> QED
        BY <3>1, <3>2, <3>3
  <2>4. NotByGui' = (IF t = "gui" THEN NotByGui ELSE NotByGui \cup {n + 1})
    <3>1. \A i \in 1..n : mutations'[i][1][1] = mutations[i][1][1]
        BY <1>3
    <3>2. mutations'[n + 1][1][1] = t
        BY <1>3, <1>6
    <3> QED
        BY <1>3, <1>4, <3>1, <3>2 DEF NotByGui
  <2>5. NotRaised' = (IF how = "raised" THEN NotRaised ELSE NotRaised \cup {n + 1})
    <3>1. \A i \in 1..n : mutations'[i][2] = mutations[i][2]
        BY <1>3
    <3>2. mutations'[n + 1][2] = how
        BY <1>3, <1>6
    <3> QED
        BY <1>3, <1>4, <3>1, <3>2 DEF NotRaised
  <2>6. offThread' = Cardinality(NotByGui')
    <3>1. NotByGui \in SUBSET (1..n) /\ offThread = Cardinality(NotByGui)
        BY <2>1 DEF NotByGui, QueueInv
    <3>2. t = "gui" <=> how = "ran"
        BY <1>1, <2>1
    <3>3. CASE t = "gui"
        BY <1>1, <2>1, <2>4, <3>1, <3>2, <3>3
    <3>4. CASE t # "gui"
      <4>1. Cardinality(NotByGui') = Cardinality(NotByGui) + 1
          BY <1>2, <2>4, <3>1, <3>4, OneMore
      <4> QED
          BY <1>1, <2>1, <3>1, <3>2, <3>4, <4>1
    <3> QED
        BY <3>3, <3>4
  <2>7. how # "raised" => Cardinality(NotRaised') = Cardinality(NotRaised) + 1
    <3>1. NotRaised \in SUBSET (1..n)
        BY DEF NotRaised
    <3> QED
        BY <1>2, <2>5, <3>1, OneMore
  <2>8. CASE how = "ran"
    <3>1. /\ performed' \in Seq(C) /\ Len(performed') = Len(performed) + 1
          /\ \A i \in 1..Len(performed) : performed'[i] = performed[i]
          /\ performed'[Len(performed) + 1] = c
      <4> HIDE DEF C
      <4>1. performed' = Append(performed, c) /\ c \in C /\ performed \in Seq(C)
          BY <1>1, <1>2, <2>2, <2>8
      <4> QED
          BY <4>1, AppendedAt
    <3>2. \A i \in 1..Len(performed') : i \in 1..Len(performed) \/ i = Len(performed) + 1
        BY <2>2, <3>1
    <3>3. posted' = posted /\ t = "gui"
        BY <1>1, <2>8
    <3>4. \A i \in 1..Len(performed') : performed'[i][2] <= n + 1 /\ (dev => performed'[i][1] = "gui")
      <4> SUFFICES ASSUME NEW i \in 1..Len(performed')
                   PROVE  performed'[i][2] <= n + 1 /\ (dev => performed'[i][1] = "gui")
          OBVIOUS
      <4>1. CASE i \in 1..Len(performed)
        <5>1. performed'[i] = performed[i] /\ performed[i][2] \in Nat /\ performed[i][2] < n + 1
            BY <2>3, <3>1, <4>1
        <5>2. dev => performed[i][1] = "gui"
            BY <2>1, <4>1 DEF QueueInv
        <5> QED
            BY <1>2, <5>1, <5>2
      <4>2. CASE i = Len(performed) + 1
          BY <1>2, <1>6, <3>1, <3>3, <4>2
      <4> QED
          BY <3>2, <4>1, <4>2
    <3>5. \A i, j \in 1..Len(performed') : i < j => Sooner(performed'[i], performed'[j])
      <4> SUFFICES ASSUME NEW i \in 1..Len(performed'), NEW j \in 1..Len(performed'), i < j
                   PROVE  Sooner(performed'[i], performed'[j])
          OBVIOUS
      <4>1. i \in 1..Len(performed) /\ performed'[i] = performed[i]
        <5>1. i \in 1..Len(performed)
            BY <2>2, <3>2
        <5> QED
            BY <3>1, <5>1
      <4>2. CASE j \in 1..Len(performed)
          BY <2>1, <3>1, <4>1, <4>2 DEF QueueInv
      <4>3. CASE j = Len(performed) + 1
          BY <1>6, <2>3, <3>1, <4>1, <4>3 DEF Sooner
      <4> QED
          BY <3>2, <4>2, <4>3
    <3>6. \A i \in 1..Len(performed'), j \in 1..Len(posted) : Sooner(performed'[i], posted[j])
      <4> SUFFICES ASSUME NEW i \in 1..Len(performed'), NEW j \in 1..Len(posted)
                   PROVE  Sooner(performed'[i], posted[j])
          OBVIOUS
      <4>1. CASE i \in 1..Len(performed)
          BY <2>1, <3>1, <4>1 DEF QueueInv
      <4>2. CASE i = Len(performed) + 1
        <5>1. posted[j][1] # "gui" /\ performed'[i][1] = "gui"
            BY <1>6, <2>1, <3>1, <3>3, <4>2 DEF QueueInv
        <5> QED
            BY <5>1 DEF Sooner
      <4> QED
          BY <3>2, <4>1, <4>2
    <3>7. \A i \in 1..Len(posted) : posted[i][1] # "gui" /\ posted[i][2] <= n + 1
        BY <1>2, <2>1, <2>3 DEF QueueInv
    <3>8. Len(performed') + Len(posted') = Cardinality(NotRaised')
        BY <2>1, <2>2, <2>7, <2>8, <3>1, <3>3 DEF QueueInv
    <3> QED
        BY <1>3, <1>5, <2>1, <2>6, <3>1, <3>3, <3>4, <3>5, <3>6, <3>7, <3>8 DEF QueueInv
  <2>9. CASE how = "raised"
    <3>1. UNCHANGED <<performed, posted>>
        BY <1>1, <2>9
    <3>2. \A i \in 1..Len(posted) : posted[i][1] # "gui" /\ posted[i][2] <= n + 1
        BY <1>2, <2>1, <2>3 DEF QueueInv
    <3>3. \A i \in 1..Len(performed) : performed[i][2] <= n + 1 /\ (dev => performed[i][1] = "gui")
        BY <1>2, <2>1, <2>3 DEF QueueInv
    <3>4. Len(performed') + Len(posted') = Cardinality(NotRaised')
        BY <2>1, <2>5, <2>9, <3>1 DEF QueueInv
    <3> QED
        BY <1>3, <1>5, <2>1, <2>6, <3>1, <3>2, <3>3, <3>4 DEF QueueInv
  <2>10. CASE how = "queued"
    <3>1. /\ posted' \in Seq(C) /\ Len(posted') = Len(posted) + 1
          /\ \A i \in 1..Len(posted) : posted'[i] = posted[i]
          /\ posted'[Len(posted) + 1] = c
      <4> HIDE DEF C
      <4>1. posted' = Append(posted, c) /\ c \in C /\ posted \in Seq(C)
          BY <1>1, <1>2, <2>2, <2>10
      <4> QED
          BY <4>1, AppendedAt
    <3>2. \A i \in 1..Len(posted') : i \in 1..Len(posted) \/ i = Len(posted) + 1
        BY <2>2, <3>1
    <3>3. performed' = performed /\ t # "gui" /\ ~dev
        BY <1>1, <2>10
    <3>4. \A i \in 1..Len(posted') : posted'[i][1] # "gui" /\ posted'[i][2] <= n + 1
      <4> SUFFICES ASSUME NEW i \in 1..Len(posted') PROVE posted'[i][1] # "gui" /\ posted'[i][2] <= n + 1
          OBVIOUS
      <4>1. CASE i \in 1..Len(posted)
        <5>1. posted'[i] = posted[i] /\ posted[i][2] \in Nat /\ posted[i][2] < n + 1
            BY <2>3, <3>1, <4>1
        <5>2. posted[i][1] # "gui"
            BY <2>1, <4>1 DEF QueueInv
        <5> QED
            BY <1>2, <5>1, <5>2
      <4>2. CASE i = Len(posted) + 1
          BY <1>2, <1>6, <3>1, <3>3, <4>2
      <4> QED
          BY <3>2, <4>1, <4>2
    <3>5. \A i, j \in 1..Len(posted') : i < j => Sooner(posted'[i], posted'[j])
      <4> SUFFICES ASSUME NEW i \in 1..Len(posted'), NEW j \in 1..Len(posted'), i < j
                   PROVE  Sooner(posted'[i], posted'[j])
          OBVIOUS
      <4>1. i \in 1..Len(posted) /\ posted'[i] = posted[i]
        <5>1. i \in 1..Len(posted)
            BY <2>2, <3>2
        <5> QED
            BY <3>1, <5>1
      <4>2. CASE j \in 1..Len(posted)
          BY <2>1, <3>1, <4>1, <4>2 DEF QueueInv
      <4>3. CASE j = Len(posted) + 1
          BY <1>6, <2>3, <3>1, <4>1, <4>3 DEF Sooner
      <4> QED
          BY <3>2, <4>2, <4>3
    <3>6. \A i \in 1..Len(performed), j \in 1..Len(posted') : Sooner(performed[i], posted'[j])
      <4> SUFFICES ASSUME NEW i \in 1..Len(performed), NEW j \in 1..Len(posted')
                   PROVE  Sooner(performed[i], posted'[j])
          OBVIOUS
      <4>1. CASE j \in 1..Len(posted)
          BY <2>1, <3>1, <4>1 DEF QueueInv
      <4>2. CASE j = Len(posted) + 1
          BY <1>6, <2>3, <3>1, <4>2 DEF Sooner
      <4> QED
          BY <3>2, <4>1, <4>2
    <3>7. \A i \in 1..Len(performed) : performed[i][2] <= n + 1 /\ (dev => performed[i][1] = "gui")
        BY <1>2, <2>1, <2>3 DEF QueueInv
    <3>8. Len(performed') + Len(posted') = Cardinality(NotRaised')
        BY <2>1, <2>2, <2>7, <2>10, <3>1, <3>3 DEF QueueInv
    <3> QED
        BY <1>3, <1>5, <2>1, <2>2, <2>6, <3>1, <3>3, <3>4, <3>5, <3>6, <3>7, <3>8 DEF QueueInv
  <2> QED
      BY <2>1, <2>8, <2>9, <2>10
<1> QED
    BY <1>5, <1>7, <1>8 DEF MutatorInv

\* The oldest call that is posted is performed.
LEMMA RunQueuedKeeps == MutatorInv /\ RunQueued => MutatorInv'
<1> SUFFICES ASSUME MutatorInv, RunQueued PROVE MutatorInv'
    OBVIOUS
<1> DEFINE C == (Workers \cup {"gui"}) \X Nat
           c == posted[1]
<1>1. /\ posted # <<>> /\ performed' = Append(performed, Head(posted)) /\ posted' = Tail(posted)
      /\ UNCHANGED <<method, dev, mutations, offThread>>
    BY DEF RunQueued
<1>2. StrayInv' /\ Guarded' = Guarded /\ NotByGui' = NotByGui /\ NotRaised' = NotRaised
    BY <1>1 DEF MutatorInv, StrayInv, Guarded, NotByGui, NotRaised
<1>3. ASSUME Guarded PROVE QueueInv'
  <2>1. QueueInv /\ posted \in Seq(C) /\ performed \in Seq(C) /\ ~dev
      BY <1>1, <1>3 DEF MutatorInv, QueueInv
  <2>2. /\ posted' \in Seq(C) /\ Len(posted) \in Nat \ {0} /\ Len(posted') = Len(posted) - 1
        /\ \A i \in 1..Len(posted) - 1 : posted'[i] = posted[i + 1]
        /\ Head(posted) = c /\ c \in C
      BY <1>1, <2>1, TailAt
  <2>3. /\ performed' \in Seq(C) /\ Len(performed) \in Nat /\ Len(performed') = Len(performed) + 1
        /\ \A i \in 1..Len(performed) : performed'[i] = performed[i]
        /\ performed'[Len(performed) + 1] = c
      BY <1>1, <2>1, <2>2, AppendedAt
  <2>4. 1 \in 1..Len(posted) /\ c = posted[1]
      BY <2>2
  <2> HIDE DEF c, C
  <2>5. \A i \in 1..Len(performed') :
          \/ i \in 1..Len(performed) /\ performed'[i] = performed[i]
          \/ i = Len(performed) + 1 /\ performed'[i] = c
      BY <2>3
  <2>6. \A j \in 1..Len(posted') : j + 1 \in 1..Len(posted) /\ posted'[j] = posted[j + 1]
      BY <2>2
  <2>7. \A i \in 1..Len(performed') : performed'[i][2] <= Len(mutations)
      BY <2>1, <2>4, <2>5 DEF QueueInv
  <2>8. \A i \in 1..Len(posted') : posted'[i][1] # "gui" /\ posted'[i][2] <= Len(mutations)
      BY <2>1, <2>6 DEF QueueInv
  <2>9. \A i, j \in 1..Len(performed') : i < j => Sooner(performed'[i], performed'[j])
    <3> SUFFICES ASSUME NEW i \in 1..Len(performed'), NEW j \in 1..Len(performed'), i < j
                 PROVE  Sooner(performed'[i], performed'[j])
        OBVIOUS
    <3>1. i \in 1..Len(performed) /\ performed'[i] = performed[i]
        BY <2>3, <2>5
    <3> QED
        BY <2>1, <2>4, <2>5, <3>1 DEF QueueInv
  <2>10. \A i, j \in 1..Len(posted') : i < j => Sooner(posted'[i], posted'[j])
    <3> SUFFICES ASSUME NEW i \in 1..Len(posted'), NEW j \in 1..Len(posted'), i < j
                 PROVE  Sooner(posted'[i], posted'[j])
        OBVIOUS
    <3>1. i + 1 < j + 1
        BY <2>2
    <3> QED
        BY <2>1, <2>6, <3>1 DEF QueueInv
  <2>11. \A i \in 1..Len(performed'), j \in 1..Len(posted') : Sooner(performed'[i], posted'[j])
    <3> SUFFICES ASSUME NEW i \in 1..Len(performed'), NEW j \in 1..Len(posted')
                 PROVE  Sooner(performed'[i], posted'[j])
        OBVIOUS
    <3>1. 1 < j + 1
        BY <2>2
    <3> QED
        BY <2>1, <2>4, <2>5, <2>6, <3>1 DEF QueueInv
  <2>12. Len(performed') + Len(posted') = Len(performed) + Len(posted)
      BY <2>2, <2>3
  <2> QED
      BY <1>1, <1>2, <2>1, <2>2, <2>3, <2>7, <2>8, <2>9, <2>10, <2>11, <2>12 DEF QueueInv, C
<1> QED
    BY <1>2, <1>3 DEF MutatorInv

LEMMA MutatorStays == MutatorInv /\ UNCHANGED mutators => MutatorInv'
BY DEF mutators, MutatorInv, StrayInv, QueueInv, Guarded, NotByGui, NotRaised

LEMMA GuiNextInv == WatchInv /\ MutatorInv /\ [GuiNext]_guiVars => WatchInv' /\ MutatorInv'
<1> SUFFICES ASSUME WatchInv, MutatorInv, [GuiNext]_guiVars PROVE WatchInv' /\ MutatorInv'
    OBVIOUS
<1>1. CASE UNCHANGED guiVars
    BY <1>1, WatchStays, MutatorStays DEF guiVars
<1>2. CASE Block \/ RunQueued \/ \E t \in Workers \cup {"gui"} : CallMutator(t)
  <2>1. UNCHANGED <<now, watch>>
      BY <1>2 DEF Block, RunQueued, CallMutator
  <2>2. MutatorInv'
      BY <1>2, RunQueuedKeeps, CallKeeps, MutatorStays DEF Block
  <2> QED
      BY <2>1, <2>2, WatchStays
<1>3. CASE Tick \/ StartWatch \/ StopWatch \/ StopWatchReturns \/ Heartbeat
  <2>1. UNCHANGED mutators
      BY <1>3 DEF Tick, StartWatch, StopWatch, StopWatchReturns, Heartbeat
  <2> QED
      BY <1>3, <2>1, MutatorStays, TickKeeps, StartKeeps, StopKeeps, HeartbeatKeeps
<1>4. ASSUME NEW m \in Monitors, CheckBeat(m) \/ SetFrozen(m) \/ HandleFreeze(m) \/ CallbackReturns(m)
      PROVE  WatchInv' /\ MutatorInv'
  <2>1. UNCHANGED mutators
      BY <1>4 DEF CheckBeat, SetFrozen, HandleFreeze, CallbackReturns
  <2> QED
      BY <1>4, <2>1, MutatorStays, MonitorKeeps
<1> QED
    BY <1>1, <1>2, <1>3, <1>4 DEF GuiNext

LEMMA UiThreadIsKept == WatchInv /\ MutatorInv => UiThreadKept
<1> SUFFICES ASSUME WatchInv, MutatorInv PROVE UiThreadKept
    OBVIOUS
<1>1. FreezesAreReal
  <2> SUFFICES ASSUME ~overtaken PROVE count <= gaps /\ (frozen /\ watching => Late)
      BY DEF FreezesAreReal
  <2> QED
      BY DEF WatchInv, WatchTypeInv, GapsAreOwed
<1>2. DOMAIN mutations = 1..Len(mutations)
    BY DEF MutatorInv, StrayInv
<1>3. MutatorsRunInOrder
  <2> SUFFICES ASSUME Guarded
               PROVE  /\ offThread = Cardinality({i \in DOMAIN mutations : mutations[i][1][1] # "gui"})
                      /\ \A i, j \in DOMAIN performed :
                           i < j => /\ performed[i] # performed[j]
                                    /\ performed[i][1] = performed[j][1] => performed[i][2] < performed[j][2]
                      /\ \A i \in DOMAIN performed : dev => performed[i][1] = "gui"
                      /\ posted = <<>> => Len(performed) = Cardinality({i \in DOMAIN mutations : mutations[i][2] # "raised"})
      BY DEF MutatorsRunInOrder
  <2>1. QueueInv
      BY DEF MutatorInv
  <2>2. DOMAIN performed = 1..Len(performed) /\ Len(performed) \in Nat
      BY <2>1 DEF QueueInv
  <2>3. \A i \in 1..Len(performed) : performed[i][2] \in Nat
      BY <2>1 DEF QueueInv
  <2>4. ASSUME NEW i \in 1..Len(performed), NEW j \in 1..Len(performed), i < j
        PROVE  /\ performed[i] # performed[j]
               /\ performed[i][1] = performed[j][1] => performed[i][2] < performed[j][2]
    <3>1. Sooner(performed[i], performed[j])
        BY <2>1, <2>4 DEF QueueInv
    <3> QED
        BY <2>3, <3>1 DEF Sooner
  <2>5. posted = <<>> => Len(performed) = Cardinality(NotRaised)
      BY <2>1, <2>2 DEF QueueInv
  <2> QED
      BY <1>2, <2>1, <2>2, <2>4, <2>5 DEF QueueInv, NotByGui, NotRaised
<1>4. StraysAreReported
  <2>1. offThread > 0 => ~Unprotected
      BY DEF MutatorInv, StrayInv, Unprotected
  <2>2. \A i \in 1..Len(mutations) :
          mutations[i][2] = "stray" /\ "named" \in method => Unprotected \/ IsSlot \/ OptedOut
      BY DEF MutatorInv, StrayInv, Unprotected
  <2> QED
      BY <1>2, <2>1, <2>2 DEF StraysAreReported
<1> QED
    BY <1>1, <1>3, <1>4 DEF UiThreadKept

\* A freeze is counted once, and only if it was one; other threads' calls of a guarded method
\* run on the GUI thread, in order (ui_watchdog.py, thread_affinity.py).
THEOREM GuiCorrect == GuiSpec => []UiThreadKept
<1>1. GuiInit => WatchInv /\ MutatorInv
    BY WatchInitInv, MutatorInitInv
<1> QED
    BY <1>1, GuiNextInv, UiThreadIsKept, PTL DEF GuiSpec

----------------------------------------------------------------------------
(* Layouts: what is on disk is what the user had; a host is restored from it *)
(* once it is whole.                                                         *)

\* Hosts that have all their panels.
Whole == {h \in Hosts : default[h] # NoHost}

\* Until a host was handed over there is only the first one, registered as long as it is
\* called back about.
OnlyHost ==
    /\ \A h \in Hosts : h > 1 => hosts[h] = NoHost /\ placing[h] = <<>>
    /\ registeredHost <= 1 /\ (callbacks # {} => registeredHost = 1)

HostsInv ==
    /\ hosts = [h \in Hosts |-> hosts[h]] /\ placing = [h \in Hosts |-> placing[h]]
    /\ default = [h \in Hosts |-> default[h]]
    /\ \A h \in Whole : placing[h] = <<>>
    /\ \A h \in Hosts : h > 1 /\ (hosts[h] # NoHost \/ placing[h] # <<>> \/ default[h] # NoHost) => 1 \in Whole
    /\ restored \subseteq Whole /\ callbacks \subseteq Whole
    /\ registeredHost \in {0} \cup Whole
    /\ handedOver \in BOOLEAN
    /\ ~handedOver => OnlyHost

LayoutsInv == HostsInv /\ kept = disk /\ LayoutsKept

LEMMA LayoutsInitInv == LayoutsInit => LayoutsInv
<1> SUFFICES ASSUME LayoutsInit PROVE LayoutsInv
    OBVIOUS
<1>1. /\ hosts = [h \in Hosts |-> NoHost] /\ placing = [h \in Hosts |-> <<>>]
      /\ default = [h \in Hosts |-> NoHost] /\ registeredHost = 0 /\ callbacks = {}
      /\ restored = {} /\ handedOver = FALSE /\ kept = disk
    BY DEF LayoutsInit, Starting
<1>2. Whole = {}
    BY <1>1 DEF Whole
<1>3. HostsInv
  <2>1. /\ hosts = [h \in Hosts |-> hosts[h]] /\ placing = [h \in Hosts |-> placing[h]]
        /\ default = [h \in Hosts |-> default[h]]
      BY <1>1
  <2>2. \A h \in Hosts : hosts[h] = NoHost /\ placing[h] = <<>> /\ default[h] = NoHost
      BY <1>1
  <2>3. OnlyHost
      BY <1>1, <2>2 DEF OnlyHost
  <2> QED
      BY <1>1, <1>2, <2>1, <2>2, <2>3 DEF HostsInv
<1>4. LayoutsKept
    BY <1>1 DEF LayoutsKept
<1> QED
    BY <1>1, <1>3, <1>4 DEF LayoutsInv

\* A restored host has its panels where they were at the last save.
AsKept(h) ==
    IF kept.version = version
    THEN \A t \in DOMAIN hosts[h] \cap DOMAIN kept.state : hosts[h][t] = kept.state[t]
    ELSE hosts[h] = default[h]

LEMMA KeptMeans ==
    LayoutsKept <=> \A h \in restored \ arranged :
                      ~handedOver /\ hosts[h] # NoHost /\ kept # NoEntry => AsKept(h)
BY DEF LayoutsKept, AsKept

\* What leaves the restored hosts where they are keeps them so.
LEMMA UntouchedKeeps ==
    ASSUME LayoutsKept, UNCHANGED <<kept, version, handedOver>>, restored' \subseteq restored,
           arranged \subseteq arranged',
           \A h \in restored \ arranged' : hosts'[h] = hosts[h] /\ default'[h] = default[h]
    PROVE  LayoutsKept'
<1>1. ASSUME NEW h \in restored' \ arranged', ~handedOver', hosts'[h] # NoHost, kept' # NoEntry
      PROVE  AsKept(h)'
  <2>1. hosts'[h] = hosts[h] /\ default'[h] = default[h] /\ h \in restored \ arranged
      BY <1>1
  <2>2. AsKept(h)
      BY <1>1, <2>1, KeptMeans
  <2> QED
      BY <2>1, <2>2 DEF AsKept
<1>2. \A h \in restored' \ arranged' : (~handedOver' /\ hosts'[h] # NoHost /\ kept' # NoEntry) => AsKept(h)'
    BY <1>1
<1> QED
    BY <1>2 DEF LayoutsKept, AsKept

LEMMA ContributePanelKeeps ==
    ASSUME LayoutsInv, NEW p \in Panels, ContributePanel(p) PROVE LayoutsInv'
<1>1. UNCHANGED <<run, version, hosts, placing, default, arranged, registeredHost, callbacks, disk, kept, restored, handedOver>>
    BY DEF ContributePanel, registry
<1>2. HostsInv'
    BY <1>1 DEF LayoutsInv, HostsInv, OnlyHost, Whole
<1>3. LayoutsKept'
    BY <1>1, UntouchedKeeps DEF LayoutsInv
<1> QED
    BY <1>1, <1>2, <1>3 DEF LayoutsInv

\* The first host of a run, or another one that takes over.
LEMMA BuildKeeps ==
    ASSUME LayoutsInv, NEW h \in Hosts, Build(h) PROVE LayoutsInv'
<1>1. /\ hosts' = [hosts EXCEPT ![h] = [t \in {""} |-> AsBuilt]] /\ placing' = [placing EXCEPT ![h] = InOrder]
      /\ handedOver' = (h > 1) /\ default[h] = NoHost
      /\ \A g \in Hosts : g < h => default[g] # NoHost
      /\ UNCHANGED <<version, default, arranged, registeredHost, callbacks, disk, kept, restored>>
    BY DEF Build, registry
<1>2. Whole' = Whole /\ h \notin Whole
    BY <1>1 DEF Whole
<1>3. h # 1 => 1 \in Whole /\ h > 1
  <2> SUFFICES ASSUME h # 1 PROVE 1 \in Whole /\ h > 1
      OBVIOUS
  <2>1. 1 \in Hosts /\ 1 < h
      BY HostsAssumption DEF Hosts
  <2> QED
      BY <1>1, <2>1 DEF Whole
<1>4. /\ hosts' = [g \in Hosts |-> hosts'[g]] /\ placing' = [g \in Hosts |-> placing'[g]]
      /\ \A g \in Hosts : g # h => hosts'[g] = hosts[g] /\ placing'[g] = placing[g]
    BY <1>1 DEF LayoutsInv, HostsInv
<1>5. CASE h = 1
  <2>1. \A g \in Hosts : g > 1 => hosts[g] = NoHost /\ placing[g] = <<>> /\ default[g] = NoHost
      BY <1>2, <1>5 DEF LayoutsInv, HostsInv
  <2>2. Whole = {}
    <3>1. \A g \in Hosts : g = 1 \/ g > 1
        BY HostsAssumption DEF Hosts
    <3> QED
        BY <1>1, <1>5, <2>1, <3>1 DEF Whole
  <2>3. restored = {} /\ callbacks = {} /\ registeredHost = 0
      BY <2>2 DEF LayoutsInv, HostsInv
  <2>4. handedOver' = FALSE
    <3>1. handedOver' = (h > 1)
        BY <1>1, Zenon
    <3>2. (h > 1) = FALSE
        BY <1>5
    <3> QED
        BY <3>1, <3>2, Zenon
  <2>5. \A g \in Hosts : g > 1 => hosts'[g] = NoHost /\ placing'[g] = <<>> /\ default'[g] = NoHost
      BY <1>1, <1>4, <1>5, <2>1
  <2>6. \A g \in Hosts : g > 1 => ~ (hosts'[g] # NoHost \/ placing'[g] # <<>> \/ default'[g] # NoHost)
      BY <2>5
  <2>7. HostsInv'
    <3>1. UNCHANGED <<registeredHost, callbacks, restored>>
        BY <1>1
    <3>2. OnlyHost'
        BY <2>3, <2>5, <3>1 DEF OnlyHost
    <3>3. default' = [g \in Hosts |-> default'[g]]
        BY <1>1 DEF LayoutsInv, HostsInv
    <3>4. Whole' = {}
        BY <1>2, <2>2
    <3> QED
        BY <1>4, <2>3, <2>4, <2>6, <3>1, <3>2, <3>3, <3>4 DEF HostsInv
  <2>8. LayoutsKept'
      BY <1>1, <2>3 DEF LayoutsKept
  <2> QED
      BY <1>1, <2>7, <2>8 DEF LayoutsInv
<1>6. CASE h # 1
  <2>1. handedOver' = TRUE
    <3>1. h > 1
        BY <1>3, <1>6
    <3> QED
        BY <1>1, <3>1, Zenon
  <2>2. HostsInv'
    <3>1. \A g \in Hosts : g > 1 /\ (hosts'[g] # NoHost \/ placing'[g] # <<>> \/ default'[g] # NoHost) => 1 \in Whole'
        BY <1>2, <1>3, <1>6
    <3>2. \A g \in Whole' : placing'[g] = <<>>
        BY <1>2, <1>4 DEF LayoutsInv, HostsInv, Whole
    <3>3. /\ default' = [g \in Hosts |-> default'[g]] /\ restored' \subseteq Whole' /\ callbacks' \subseteq Whole'
          /\ registeredHost' \in {0} \cup Whole'
        BY <1>1, <1>2 DEF LayoutsInv, HostsInv
    <3> QED
        BY <1>4, <2>1, <3>1, <3>2, <3>3 DEF HostsInv
  <2> QED
      BY <1>1, <2>1, <2>2 DEF LayoutsInv, LayoutsKept
<1> QED
    BY <1>5, <1>6

LEMMA PlaceKeeps ==
    ASSUME LayoutsInv, NEW h \in Hosts, Place(h) PROVE LayoutsInv'
<1>1. /\ placing[h] # <<>> /\ placing' = [placing EXCEPT ![h] = Tail(@)]
      /\ hosts' = [hosts EXCEPT ![h] = Places(h, Head(placing[h]))]
      /\ UNCHANGED <<version, default, arranged, registeredHost, callbacks, disk, kept, restored, handedOver>>
    BY DEF Place, registry
<1>2. Whole' = Whole /\ h \notin Whole
    BY <1>1 DEF Whole, LayoutsInv, HostsInv
<1>3. /\ hosts' = [g \in Hosts |-> hosts'[g]] /\ placing' = [g \in Hosts |-> placing'[g]]
      /\ \A g \in Hosts : g # h => hosts'[g] = hosts[g] /\ placing'[g] = placing[g]
    BY <1>1 DEF LayoutsInv, HostsInv
<1>4. h > 1 => 1 \in Whole /\ handedOver
    BY <1>1 DEF LayoutsInv, HostsInv, OnlyHost
<1>5. HostsInv'
  <2>1. \A g \in Hosts : g > 1 /\ (hosts'[g] # NoHost \/ placing'[g] # <<>> \/ default'[g] # NoHost) => 1 \in Whole'
      BY <1>1, <1>2, <1>3, <1>4 DEF LayoutsInv, HostsInv
  <2>2. \A g \in Whole' : placing'[g] = <<>>
      BY <1>2, <1>3 DEF LayoutsInv, HostsInv, Whole
  <2>3. ~handedOver' => OnlyHost'
      BY <1>1, <1>3, <1>4 DEF LayoutsInv, HostsInv, OnlyHost
  <2> QED
      BY <1>1, <1>2, <1>3, <2>1, <2>2, <2>3 DEF LayoutsInv, HostsInv
<1>6. \A g \in restored : g \in Hosts /\ g # h
    BY <1>2 DEF LayoutsInv, HostsInv, Whole
<1>7. LayoutsKept'
    BY <1>1, <1>3, <1>6, UntouchedKeeps DEF LayoutsInv
<1> QED
    BY <1>1, <1>5, <1>7 DEF LayoutsInv

LEMMA CaptureDefaultKeeps ==
    ASSUME LayoutsInv, NEW h \in Hosts, CaptureDefault(h) PROVE LayoutsInv'
<1>1. /\ hosts[h] # NoHost /\ placing[h] = <<>> /\ default[h] = NoHost
      /\ default' = [default EXCEPT ![h] = hosts[h]]
      /\ UNCHANGED <<version, hosts, placing, arranged, registeredHost, callbacks, disk, kept, restored, handedOver>>
    BY DEF CaptureDefault, registry
<1>2. /\ default' = [g \in Hosts |-> default'[g]] /\ default'[h] = hosts[h]
      /\ \A g \in Hosts : g # h => default'[g] = default[g]
    BY <1>1 DEF LayoutsInv, HostsInv
<1>3. Whole' = Whole \cup {h} /\ h \notin Whole
    BY <1>1, <1>2 DEF Whole
<1>4. HostsInv'
  <2>1. \A g \in Hosts : g > 1 /\ (hosts[g] # NoHost \/ placing[g] # <<>> \/ default'[g] # NoHost) => 1 \in Whole'
      BY <1>1, <1>2, <1>3 DEF LayoutsInv, HostsInv
  <2> QED
      BY <1>1, <1>2, <1>3, <2>1 DEF LayoutsInv, HostsInv, OnlyHost
<1>5. \A g \in restored : g \in Hosts /\ g # h
    BY <1>3 DEF LayoutsInv, HostsInv, Whole
<1>6. LayoutsKept'
    BY <1>1, <1>2, <1>5, UntouchedKeeps DEF LayoutsInv
<1> QED
    BY <1>1, <1>4, <1>6 DEF LayoutsInv

\* A host that is whole is changed, and nothing else.
LEMMA ChangedHostKeeps ==
    ASSUME HostsInv, NEW h \in Whole, hosts[h] # NoHost, NEW layout, hosts' = [hosts EXCEPT ![h] = layout],
           restored' \subseteq Whole, UNCHANGED <<placing, default, registeredHost, callbacks, handedOver>>
    PROVE  /\ HostsInv' /\ hosts'[h] = layout
           /\ \A g \in Hosts : g # h => hosts'[g] = hosts[g] /\ default'[g] = default[g]
<1>1. h \in Hosts /\ Whole' = Whole
    BY DEF Whole
<1>2. /\ hosts' = [g \in Hosts |-> hosts'[g]] /\ hosts'[h] = layout
      /\ \A g \in Hosts : g # h => hosts'[g] = hosts[g]
    BY <1>1 DEF HostsInv
<1>3. h > 1 => 1 \in Whole /\ handedOver
    BY <1>1 DEF HostsInv, OnlyHost
<1>4. HostsInv'
    BY <1>1, <1>2, <1>3 DEF HostsInv, OnlyHost
<1> QED
    BY <1>2, <1>4

LEMMA ArrangeKeeps ==
    ASSUME LayoutsInv, NEW h \in Hosts, (\E t \in DOMAIN hosts[h] : Arrange(h, t)) \/ ResetLayout(h)
    PROVE  LayoutsInv'
<1>1. PICK layout : hosts' = [hosts EXCEPT ![h] = layout]
  <2>1. CASE ResetLayout(h)
      BY <2>1 DEF ResetLayout
  <2>2. ASSUME NEW t \in DOMAIN hosts[h], Arrange(h, t)
        PROVE  \E layout : hosts' = [hosts EXCEPT ![h] = layout]
    <3> DEFINE layout == [hosts[h] EXCEPT ![t] = IF @ = AsBuilt THEN "moved" ELSE AsBuilt]
    <3>1. hosts' = [hosts EXCEPT ![h] = layout]
        BY <2>2 DEF Arrange, LayoutsInv, HostsInv
    <3> QED
        BY <3>1
  <2> QED
      BY <2>1, <2>2
<1>2. /\ HostUsable(h) /\ arranged' = arranged \cup {h}
      /\ UNCHANGED <<version, placing, default, registeredHost, callbacks, disk, kept, restored, handedOver>>
    BY DEF Arrange, ResetLayout, registry
<1>3. h \in Whole /\ hosts[h] # NoHost /\ HostsInv /\ restored' \subseteq Whole
    BY <1>2 DEF HostUsable, Whole, LayoutsInv, HostsInv
<1>4. HostsInv' /\ \A g \in Hosts : g # h => hosts'[g] = hosts[g] /\ default'[g] = default[g]
    BY <1>1, <1>2, <1>3, ChangedHostKeeps
<1>5. LayoutsKept'
  <2>1. \A g \in restored \ arranged' : g \in Hosts /\ g # h
      BY <1>2 DEF LayoutsInv, HostsInv, Whole
  <2> QED
      BY <1>2, <1>4, <2>1, UntouchedKeeps DEF LayoutsInv
<1> QED
    BY <1>2, <1>4, <1>5 DEF LayoutsInv

LEMMA RegisterHostKeeps ==
    ASSUME LayoutsInv, NEW h \in Hosts, RegisterHost(h) PROVE LayoutsInv'
<1>1. /\ HostUsable(h) /\ registeredHost' = h /\ callbacks' = callbacks \cup {h}
      /\ UNCHANGED <<version, hosts, placing, default, arranged, disk, kept, restored, handedOver>>
    BY DEF RegisterHost
<1>2. h \in Whole /\ Whole' = Whole
    BY <1>1 DEF HostUsable, Whole
<1>3. ~handedOver => h <= 1 /\ h = 1
    BY <1>1, HostsAssumption DEF HostUsable, LayoutsInv, HostsInv, OnlyHost, Hosts
<1>4. HostsInv'
    BY <1>1, <1>2, <1>3 DEF LayoutsInv, HostsInv, OnlyHost
<1>5. LayoutsKept'
    BY <1>1, UntouchedKeeps DEF LayoutsInv
<1> QED
    BY <1>1, <1>4, <1>5 DEF LayoutsInv

LEMMA HandOverKeeps ==
    ASSUME LayoutsInv, Unregister \/ \E h \in Hosts : Destroyed(h) PROVE LayoutsInv'
<1>1. /\ handedOver' = TRUE /\ registeredHost' \in {0, registeredHost} /\ callbacks' \subseteq callbacks
      /\ UNCHANGED <<placing, default, disk, kept, restored>>
      /\ \/ hosts' = hosts
         \/ \E h \in Hosts : hosts[h] # NoHost /\ hosts' = [hosts EXCEPT ![h] = NoHost]
    BY DEF Unregister, Destroyed, HostUsable
<1>2. Whole' = Whole
    BY <1>1 DEF Whole
<1>3. hosts' = [h \in Hosts |-> hosts'[h]] /\ \A h \in Hosts : hosts'[h] # NoHost => hosts[h] # NoHost
  <2>1. CASE hosts' = hosts
      BY <2>1 DEF LayoutsInv, HostsInv
  <2>2. ASSUME NEW h \in Hosts, hosts[h] # NoHost, hosts' = [hosts EXCEPT ![h] = NoHost]
        PROVE  hosts' = [g \in Hosts |-> hosts'[g]] /\ \A g \in Hosts : hosts'[g] # NoHost => hosts[g] # NoHost
      BY <2>2 DEF LayoutsInv, HostsInv
  <2> QED
      BY <1>1, <2>1, <2>2
<1>4. HostsInv'
    BY <1>1, <1>2, <1>3 DEF LayoutsInv, HostsInv
<1> QED
    BY <1>1, <1>4 DEF LayoutsInv, LayoutsKept

\* What is saved is the layout of the one host there is.
LEMMA SaveKeeps == LayoutsInv /\ SaveLayout => LayoutsInv'
<1> SUFFICES ASSUME LayoutsInv, SaveLayout PROVE LayoutsInv'
    OBVIOUS
<1>1. /\ registeredHost # 0 \/ callbacks # {}
      /\ disk' = Captured /\ restored' = {}
      /\ kept' = IF Alive = {} \/ handedOver THEN disk'
                 ELSE [version |-> version, state |-> hosts[CHOOSE h \in Alive : \A g \in Alive : g <= h]]
      /\ UNCHANGED <<hosts, placing, default, registeredHost, callbacks, handedOver>>
    BY DEF SaveLayout, registry
<1>2. HostsInv'
    BY <1>1 DEF LayoutsInv, HostsInv, OnlyHost, Whole
<1>3. kept' = disk'
  <2>1. CASE Alive = {} \/ handedOver
      BY <1>1, <2>1
  <2>2. CASE ~ (Alive = {} \/ handedOver)
    <3>1. OnlyHost /\ registeredHost = 1
        BY <1>1, <2>2, HostsAssumption DEF LayoutsInv, HostsInv, OnlyHost, Whole, Hosts
    <3>2. Alive = {1}
      <4>1. \A h \in Alive : h \in Hosts /\ ~ (h > 1)
          BY <3>1 DEF Alive, OnlyHost
      <4>2. \A h \in Alive : h = 1
          BY <4>1, HostsAssumption DEF Hosts
      <4> QED
          BY <2>2, <4>2
    <3>3. (CHOOSE h \in Alive : \A g \in Alive : g <= h) = 1
        BY <3>2
    <3>4. kept' = [version |-> version, state |-> hosts[1]]
        BY <1>1, <2>2, <3>3
    <3>5. disk' = [version |-> version, state |-> hosts[1]]
        BY <1>1, <3>1 DEF Captured
    <3> QED
        BY <3>4, <3>5
  <2> QED
      BY <2>1, <2>2
<1>4. LayoutsKept'
    BY <1>1 DEF LayoutsKept
<1> QED
    BY <1>2, <1>3, <1>4 DEF LayoutsInv

\* A host that is restored has what is kept, or what it was built with.
LEMMA RestoreKeeps == LayoutsInv /\ Restore => LayoutsInv'
<1> SUFFICES ASSUME LayoutsInv, Restore PROVE LayoutsInv'
    OBVIOUS
<1> DEFINE h == registeredHost
           layout == IF Applies(disk) THEN Applied(h, disk.state) ELSE default[h]
<1>1. /\ h # 0 /\ h \in Whole /\ h \in Hosts /\ restored' = restored \cup {h}
      /\ UNCHANGED <<version, placing, default, registeredHost, callbacks, disk, kept, handedOver>>
      /\ HostsInv /\ kept = disk
    BY DEF Restore, registry, LayoutsInv, HostsInv, Whole
<1>2. CASE disk = NoEntry
  <2>1. UNCHANGED <<hosts, arranged>>
      BY <1>2 DEF Restore
  <2>2. HostsInv'
      BY <1>1, <2>1 DEF HostsInv, OnlyHost, Whole
  <2>3. LayoutsKept'
      BY <1>1, <1>2 DEF LayoutsKept
  <2> QED
      BY <1>1, <2>2, <2>3 DEF LayoutsInv
<1>3. CASE disk # NoEntry
  <2>1. hosts' = [hosts EXCEPT ![h] = layout] /\ arranged' = arranged \ {h}
      BY <1>3 DEF Restore
  <2>2. /\ hosts' = [g \in Hosts |-> hosts'[g]] /\ hosts'[h] = layout
        /\ \A g \in Hosts : g # h => hosts'[g] = hosts[g] /\ default'[g] = default[g]
    <3> HIDE DEF layout
    <3> QED
        BY <1>1, <2>1 DEF HostsInv
  <2>3. h > 1 => 1 \in Whole /\ handedOver
      BY <1>1 DEF HostsInv, OnlyHost, Whole
  <2>4. HostsInv'
    <3>1. Whole' = Whole
        BY <1>1 DEF Whole
    <3> HIDE DEF layout
    <3> QED
        BY <1>1, <2>2, <2>3, <3>1 DEF HostsInv, OnlyHost
  <2>5. AsKept(h)'
    <3>1. CASE disk.version = version
      <4>1. hosts'[h] = [t \in DOMAIN hosts[h] |-> IF t \in DOMAIN disk.state THEN disk.state[t] ELSE hosts[h][t]]
          BY <2>2, <3>1 DEF Applies, Applied
      <4>2. \A t \in DOMAIN hosts'[h] \cap DOMAIN disk.state : hosts'[h][t] = disk.state[t]
          BY <4>1
      <4> HIDE DEF h
      <4>3. h' = h
          BY <1>1 DEF h
      <4> QED
          BY <1>1, <3>1, <4>2, <4>3 DEF AsKept
    <3>2. CASE disk.version # version
      <4>1. hosts'[h] = default[h]
          BY <2>2, <3>2 DEF Applies
      <4> QED
          BY <1>1, <3>2, <4>1 DEF AsKept
    <3> QED
        BY <3>1, <3>2
  <2>6. ASSUME NEW g \in restored' \ arranged', ~handedOver', hosts'[g] # NoHost, kept' # NoEntry
        PROVE  AsKept(g)'
    <3>1. CASE g = h
        BY <1>1, <2>5, <3>1 DEF AsKept
    <3>2. CASE g # h
      <4>1. g \in restored \ arranged /\ g \in Hosts
          BY <1>1, <2>1, <2>6, <3>2 DEF HostsInv, Whole
      <4>2. hosts'[g] = hosts[g] /\ default'[g] = default[g]
          BY <2>2, <3>2, <4>1
      <4>3. AsKept(g)
          BY <1>1, <2>6, <4>1, <4>2, KeptMeans DEF LayoutsInv
      <4> QED
          BY <1>1, <4>2, <4>3 DEF AsKept
    <3> QED
        BY <3>1, <3>2
  <2>7. LayoutsKept'
    <3>1. \A g \in restored' \ arranged' : (~handedOver' /\ hosts'[g] # NoHost /\ kept' # NoEntry) => AsKept(g)'
        BY <2>6
    <3> QED
        BY <3>1 DEF LayoutsKept, AsKept
  <2> QED
      BY <1>1, <2>4, <2>7 DEF LayoutsInv
<1> QED
    BY <1>2, <1>3

LEMMA DiskKeeps == LayoutsInv /\ (Corrupt \/ RestartApplication) => LayoutsInv'
<1> SUFFICES ASSUME LayoutsInv, Corrupt \/ RestartApplication PROVE LayoutsInv'
    OBVIOUS
<1>1. CASE Corrupt
  <2>1. /\ disk' \in {Unreadable, NoEntry} /\ kept' = disk' /\ restored' = {}
        /\ UNCHANGED <<hosts, placing, default, registeredHost, callbacks, handedOver>>
      BY <1>1 DEF Corrupt, registry
  <2> QED
      BY <2>1 DEF LayoutsInv, HostsInv, OnlyHost, Whole, LayoutsKept
<1>2. CASE RestartApplication
  <2>1. /\ hosts' = [h \in Hosts |-> NoHost] /\ placing' = [h \in Hosts |-> <<>>]
        /\ default' = [h \in Hosts |-> NoHost] /\ registeredHost' = 0 /\ callbacks' = {}
        /\ restored' = {} /\ handedOver' = FALSE /\ UNCHANGED <<disk, kept>>
      BY <1>2 DEF RestartApplication
  <2>2. Whole' = {}
      BY <2>1 DEF Whole
  <2>3. HostsInv'
    <3>1. /\ hosts' = [h \in Hosts |-> hosts'[h]] /\ placing' = [h \in Hosts |-> placing'[h]]
          /\ default' = [h \in Hosts |-> default'[h]]
        BY <2>1
    <3>2. \A h \in Hosts : hosts'[h] = NoHost /\ placing'[h] = <<>> /\ default'[h] = NoHost
        BY <2>1
    <3>3. OnlyHost'
        BY <2>1, <3>2 DEF OnlyHost
    <3> QED
        BY <2>1, <2>2, <3>1, <3>2, <3>3 DEF HostsInv
  <2>4. LayoutsKept'
      BY <2>1 DEF LayoutsKept
  <2> QED
      BY <2>1, <2>3, <2>4 DEF LayoutsInv
<1> QED
    BY <1>1, <1>2

LEMMA LayoutsNextInv == LayoutsInv /\ [LayoutsNext]_layoutsVars => LayoutsInv'
<1> SUFFICES ASSUME LayoutsInv, [LayoutsNext]_layoutsVars PROVE LayoutsInv'
    OBVIOUS
<1>1. CASE UNCHANGED layoutsVars
  <2>1. HostsInv'
      BY <1>1 DEF layoutsVars, registry, LayoutsInv, HostsInv, OnlyHost, Whole
  <2>2. LayoutsKept'
      BY <1>1, UntouchedKeeps DEF layoutsVars, LayoutsInv
  <2> QED
      BY <1>1, <2>1, <2>2 DEF layoutsVars, LayoutsInv
<1>2. CASE LayoutsNext
    BY <1>2, ContributePanelKeeps, BuildKeeps, PlaceKeeps, CaptureDefaultKeeps, ArrangeKeeps, RegisterHostKeeps,
       HandOverKeeps, SaveKeeps, RestoreKeeps, DiskKeeps
    DEF LayoutsNext
<1> QED
    BY <1>1, <1>2

\* A restored layout is the one that was saved, or none of it (perspective_store.py,
\* region_host.py).
THEOREM LayoutsCorrect == LayoutsSpec => []LayoutsKept
<1>1. LayoutsInv => LayoutsKept
    BY DEF LayoutsInv
<1> QED
    BY <1>1, LayoutsInitInv, LayoutsNextInv, PTL DEF LayoutsSpec

----------------------------------------------------------------------------
(* Workbench: keys, modes, guards, the toggle, the status area and the bars, *)
(* each with what the actions that reach it leave.                           *)

\* The commands that belong to the mode that shows.
Fitting == {c \in actions : Meet(c.scope, current)}

\* No two commands that can be on screen together have the same key.
NoTwoShareAKey ==
    \A c, d \in actions : c # d /\ Meet(c.scope, d.scope) => c.key = "none" \/ c.key # d.key

\* What works belongs to the mode that shows; before the first mode, nothing works.
KeysInv ==
    /\ NoTwoShareAKey
    /\ live \subseteq Fitting /\ filled \subseteq Fitting
    /\ current \in Modes \cup {"none"}
    /\ current = "none" => live = {} /\ filled = {} /\ enabled = {} /\ addedModes = <<>> /\ asking = <<>>

\* The first guard that is being asked is the current mode's, until it is overtaken; the
\* button is the current mode's while the window asks whether it may close.
AskingInv ==
    /\ addedModes \in Seq(Modes) /\ asking \in Seq(Modes \X (Modes \cup {"close"}))
    /\ ~closed /\ faults = 0 /\ Len(asking) = 1 =>
         Left = current /\ (AskedFor = "close" => checked = current)

\* The check was turned, and the presenter has not followed.
ToggleInv ==
    /\ on \in BOOLEAN /\ truth \in BOOLEAN
    /\ confirming \in {{}, {TRUE}, {FALSE}}
    /\ confirming # {} /\ ~moved => confirming = {on} /\ truth = ~on
    /\ ToggleIsTrue

BarsInv == bars \subseteq Bars /\ ticked \subseteq Bars /\ BarsAreTicked

StatusInv == widgets = [w \in DOMAIN Scope |-> widgets[w]] /\ StatusIsShown

BenchInv == KeysInv /\ AskingInv /\ ModeIsShown /\ ToggleInv /\ StatusInv /\ BarsInv

LEMMA BenchInitInv == BenchInit => BenchInv
<1> SUFFICES ASSUME BenchInit PROVE BenchInv
    OBVIOUS
<1>1. KeysInv
    BY DEF BenchInit, KeysInv, NoTwoShareAKey
<1>2. AskingInv
    BY DEF BenchInit, AskingInv
<1>3. ModeIsShown
    BY DEF BenchInit, ModeIsShown
<1>4. ToggleInv
    BY DEF BenchInit, ToggleInv, ToggleIsTrue
<1>5. StatusInv
  <2>1. widgets = [w \in DOMAIN Scope |-> "none"] /\ visible = {}
      BY DEF BenchInit
  <2>2. \A w \in DOMAIN Scope : widgets[w] = "none"
      BY <2>1
  <2>3. Slots(current, widgets) = {}
      BY <2>2 DEF Slots
  <2> QED
      BY <2>1, <2>3 DEF StatusInv, StatusIsShown
<1>6. BarsInv
    BY DEF BenchInit, BarsInv, BarsAreTicked
<1> QED
    BY <1>1, <1>2, <1>3, <1>4, <1>5, <1>6 DEF BenchInv
----------------------------------------------------------------------------
(* Keys *)

LEMMA NewCommandFits ==
    ASSUME NoTwoShareAKey, NEW c, ~Refused(c), actions' = actions \cup {c}
    PROVE  NoTwoShareAKey'
<1>1. \A e \in actions : Meet(c.scope, e.scope) => c.key = "none" \/ c.key # e.key
    BY DEF Refused, Against
<1>2. \A e \in actions : Meet(e.scope, c.scope) => e.key = "none" \/ e.key # c.key
    BY <1>1 DEF Meet
<1>3. \A d, e \in actions' : d # e /\ Meet(d.scope, e.scope) => d.key = "none" \/ d.key # e.key
    BY <1>1, <1>2 DEF NoTwoShareAKey
<1> QED
    BY <1>3 DEF NoTwoShareAKey

\* What was live and does not belong to the mode is removed.
LEMMA SyncedFits ==
    ASSUME KeysInv, actions \subseteq actions', NEW m
    PROVE  Synced(m) = InScope(m)
BY DEF KeysInv, Fitting, Synced, InScope

\* The window turns to a mode.
LEMMA TurningKeepsKeys ==
    ASSUME KeysInv, NoTwoShareAKey', actions \subseteq actions', current' \in Modes,
           live' = Synced(current'), filled' = {}
    PROVE  KeysInv'
<1>1. live' \subseteq Fitting'
    BY SyncedFits DEF InScope, Fitting
<1>2. current' # "none"
    BY ModesAssumption
<1> QED
    BY <1>1, <1>2 DEF KeysInv

\* The mode stays.
LEMMA StayingKeepsKeys ==
    ASSUME KeysInv, NoTwoShareAKey', actions \subseteq actions',
           UNCHANGED <<current, live, filled, enabled, addedModes>>, current = "none" => asking' = <<>>
    PROVE  KeysInv'
<1>1. Fitting \subseteq Fitting'
    BY DEF Fitting
<1> QED
    BY <1>1 DEF KeysInv

LEMMA KeysNext == BenchInv /\ BenchNext => KeysInv'
<1> SUFFICES ASSUME BenchInv, BenchNext PROVE KeysInv'
    OBVIOUS
<1> USE DEF BenchInv
<1>1. ASSUME NEW c \in Commands, Contribute(c) PROVE KeysInv'
  <2>1. NoTwoShareAKey'
      BY <1>1, NewCommandFits DEF Contribute, KeysInv
  <2> QED
      BY <1>1, <2>1, StayingKeepsKeys DEF Contribute, window, menus, KeysInv
<1>2. ASSUME NEW m \in Modes, AddMode(m) PROVE KeysInv'
  <2>1. NoTwoShareAKey' /\ actions \subseteq actions'
      BY <1>2, NewCommandFits DEF AddMode, KeysInv
  <2>2. CASE current = "none"
      BY <1>2, <2>1, <2>2, TurningKeepsKeys DEF AddMode, ShowMode
  <2>3. CASE current # "none"
    <3>1. Fitting \subseteq Fitting' /\ UNCHANGED <<current, live, filled>>
        BY <1>2, <2>1, <2>3 DEF Fitting, AddMode, window, menus
    <3> QED
        BY <2>1, <2>3, <3>1 DEF KeysInv
  <2> QED
      BY <2>2, <2>3
<1>3. ASSUME FinishSetup PROVE KeysInv'
  <2>1. /\ actions' = actions /\ current' = current /\ current \in Modes
        /\ live' = Synced(current) /\ filled' = {}
      BY <1>3 DEF FinishSetup, KeysInv
  <2>2. NoTwoShareAKey'
      BY <2>1 DEF NoTwoShareAKey, KeysInv
  <2> QED
      BY <2>1, <2>2, TurningKeepsKeys
<1>4. ASSUME NEW t \in enabled, OpenMenu(t) PROVE KeysInv'
  <2>1. UNCHANGED <<actions, current, live, enabled, addedModes>> /\ current # "none" /\ filled' \subseteq Fitting
      BY <1>4 DEF OpenMenu, KeysInv, Fitting
  <2> QED
      BY <2>1 DEF KeysInv, NoTwoShareAKey, Fitting
<1>5. ASSUME Agrees PROVE KeysInv'
  <2>1. actions' = actions /\ NoTwoShareAKey'
      BY <1>5 DEF Agrees, KeysInv, NoTwoShareAKey
  <2>2. CASE AskedFor = "close"
      BY <1>5, <2>1, <2>2, StayingKeepsKeys DEF Agrees, window, menus, KeysInv
  <2>3. CASE AskedFor # "close"
    <3>1. AskedFor \in Modes
        BY <1>5, <2>3 DEF Agrees, AskedFor, Last, AskingInv
    <3> QED
        BY <1>5, <2>1, <2>3, <3>1, TurningKeepsKeys DEF Agrees, ShowMode
  <2> QED
      BY <2>2, <2>3
<1>6. ASSUME UNCHANGED <<actions, current, live, filled, enabled, addedModes>>, current = "none" => asking' = <<>>
      PROVE  KeysInv'
    BY <1>6 DEF KeysInv, NoTwoShareAKey, Fitting
<1>7. ASSUME NEW m \in Modes, Navigate(m) \/ ModeClicked(m) PROVE KeysInv'
  <2>1. current # "none"
      BY <1>7 DEF Navigate, ModeClicked, KeysInv, ToSet
  <2> QED
      BY <1>6, <1>7, <2>1 DEF Navigate, ModeClicked, window, menus
<1>8. ASSUME NEW shown \in SUBSET Bars, NEW m \in Modes, RestoreState(shown, m) PROVE KeysInv'
  <2>1. current = "none" => asking' = <<>>
      BY <1>8 DEF RestoreState, KeysInv, ToSet
  <2> QED
      BY <1>6, <1>8, <2>1 DEF RestoreState, window, menus
<1>9. ASSUME CloseEvent \/ Refuses \/ GuardRaises PROVE KeysInv'
  <2>1. current # "none"
      BY <1>9 DEF CloseEvent, Refuses, GuardRaises, KeysInv
  <2> QED
      BY <1>6, <1>9, <2>1 DEF CloseEvent, Refuses, GuardRaises, window, menus
<1>10. ASSUME NEW c \in Commands, Bind(c) \/ Trigger(c) PROVE KeysInv'
    BY <1>6, <1>10 DEF Bind, Trigger, window, menus, KeysInv
<1>11. ASSUME \/ Confirmed \/ Cancelled \/ QtTogglesModeBar
              \/ \E b \in BOOLEAN : PresenterSays(b)
              \/ \E b \in Bars : BarClicked(b)
       PROVE KeysInv'
    BY <1>6, <1>11 DEF Confirmed, Cancelled, QtTogglesModeBar, PresenterSays, BarClicked, window, menus, KeysInv
<1>12. ASSUME NEW w \in DOMAIN Scope, NEW s \in {"shown", "hidden", "deleted"}, Owner(w, s) PROVE KeysInv'
    BY <1>6, <1>12 DEF Owner, window, menus, KeysInv
<1> QED
    BY <1>1, <1>2, <1>3, <1>4, <1>5, <1>7, <1>8, <1>9, <1>10, <1>11, <1>12 DEF BenchNext
----------------------------------------------------------------------------
(* Guards *)

LEMMA AskedOne ==
    ASSUME AskingInv, NEW m \in Modes, NEW x \in Modes \cup {"close"}
    PROVE  LET more == Append(asking, <<m, x>>) IN
           /\ more \in Seq(Modes \X (Modes \cup {"close"})) /\ Len(more) = Len(asking) + 1 /\ Len(asking) \in Nat
           /\ Last(more) = <<m, x>> /\ (Len(asking) = 0 => asking = <<>>)
<1> DEFINE S == Modes \X (Modes \cup {"close"})
<1>1. asking \in Seq(S) /\ <<m, x>> \in S
    BY DEF AskingInv
<1> HIDE DEF S
<1>2. /\ Append(asking, <<m, x>>) \in Seq(S) /\ Len(Append(asking, <<m, x>>)) = Len(asking) + 1
      /\ Append(asking, <<m, x>>)[Len(asking) + 1] = <<m, x>> /\ Len(asking) \in Nat
    BY <1>1, AppendedAt
<1>3. Len(asking) = 0 => asking = <<>>
    BY <1>1
<1> QED
    BY <1>2, <1>3 DEF S, Last

LEMMA AnsweredOne ==
    ASSUME AskingInv, asking # <<>>
    PROVE  /\ Front(asking) \in Seq(Modes \X (Modes \cup {"close"}))
           /\ Len(asking) \in Nat \ {0} /\ Len(Front(asking)) = Len(asking) - 1
           /\ (Len(asking) = 1 => Front(asking) = <<>>)
           /\ Left \in Modes /\ AskedFor \in Modes \cup {"close"}
<1> DEFINE S == Modes \X (Modes \cup {"close"})
<1>1. asking \in Seq(S)
    BY DEF AskingInv
<1> HIDE DEF S
<1>2. Len(asking) \in Nat \ {0} /\ asking[Len(asking)] \in S
    BY <1>1
<1>3. /\ Front(asking) \in Seq(S) /\ Len(Front(asking)) = Len(asking) - 1
      /\ (Len(asking) = 1 => Front(asking) = <<>>)
  <2>1. \A i \in 1 .. Len(asking) - 1 : asking[i] \in S
      BY <1>1, <1>2
  <2>2. /\ SubSeq(asking, 1, Len(asking) - 1) \in Seq(S)
        /\ Len(SubSeq(asking, 1, Len(asking) - 1)) = Len(asking) - 1
    <3> DEFINE n == Len(asking) - 1
    <3>1. n \in Nat /\ \A i \in 1 .. n : asking[i] \in S
        BY <1>2, <2>1
    <3> HIDE DEF n
    <3>2. /\ SubSeq(asking, 1, n) \in Seq(S)
          /\ Len(SubSeq(asking, 1, n)) = IF 1 <= n THEN n - 1 + 1 ELSE 0
        BY <3>1, SubSeqProperties
    <3>3. (IF 1 <= n THEN n - 1 + 1 ELSE 0) = n
        BY <3>1
    <3> QED
        BY <3>2, <3>3 DEF n
  <2>4. Len(asking) = 1 => SubSeq(asking, 1, Len(asking) - 1) = <<>>
      BY SubSeqEmpty
  <2> QED
      BY <2>2, <2>4 DEF Front
<1> QED
    BY <1>2, <1>3 DEF S, Left, AskedFor, Last

\* A guard that is asked while none is asked is the current mode's.
LEMMA AskingMore ==
    ASSUME AskingInv, ModeIsShown, current \in Modes, NEW x \in Modes \cup {"close"},
           asking' = Append(asking, <<current, x>>), UNCHANGED <<addedModes, current, faults, closed>>,
           x = "close" => checked' = checked
    PROVE  AskingInv' /\ (asking' = <<>> /\ faults' = 0 => checked' = current')
<1>1. /\ asking' \in Seq(Modes \X (Modes \cup {"close"})) /\ Len(asking') = Len(asking) + 1
      /\ Last(asking') = <<current, x>> /\ (Len(asking) = 0 => asking = <<>>) /\ Len(asking) \in Nat
    BY AskedOne
<1>2. Left' = current /\ AskedFor' = x /\ asking' # <<>>
    BY <1>1 DEF Left, AskedFor
<1>3. ASSUME Len(asking') = 1, faults = 0, x = "close" PROVE checked' = current
    BY <1>1, <1>3 DEF ModeIsShown
<1> QED
    BY <1>1, <1>2, <1>3 DEF AskingInv

\* Who asked while another was asked leaves a fault behind, or the window closed.
LEMMA AskingLess ==
    ASSUME AskingInv, asking # <<>>, asking' = Front(asking), UNCHANGED addedModes,
           Len(asking) > 1 => faults' = 1 \/ closed'
    PROVE  AskingInv'
<1>1. /\ asking' \in Seq(Modes \X (Modes \cup {"close"})) /\ Len(asking') = Len(asking) - 1
      /\ Len(asking) \in Nat \ {0}
    BY AnsweredOne
<1>2. Len(asking') = 1 => faults' = 1 \/ closed'
    BY <1>1
<1> QED
    BY <1>1, <1>2 DEF AskingInv

LEMMA ModesNext == BenchInv /\ BenchNext => AskingInv' /\ ModeIsShown'
<1> SUFFICES ASSUME BenchInv, BenchNext PROVE AskingInv' /\ ModeIsShown'
    OBVIOUS
<1> USE DEF BenchInv
<1>1. ASSUME UNCHANGED <<addedModes, current, page, checked, asking, faults, closed>>
      PROVE  AskingInv' /\ ModeIsShown'
    BY <1>1 DEF AskingInv, ModeIsShown, Left, AskedFor
<1>2. ASSUME NEW m \in Modes, AddMode(m) PROVE AskingInv' /\ ModeIsShown'
  <2>1. addedModes' \in Seq(Modes) /\ UNCHANGED <<asking, faults, closed>>
      BY <1>2 DEF AddMode, AskingInv
  <2>2. CASE current = "none"
    <3>1. asking = <<>> /\ current' = m /\ page' = m /\ checked' = m
        BY <1>2, <2>2 DEF AddMode, ShowMode, KeysInv
    <3> QED
        BY <2>1, <3>1 DEF AskingInv, ModeIsShown
  <2>3. CASE current # "none"
    <3>1. UNCHANGED <<current, page, checked>>
        BY <1>2, <2>3 DEF AddMode, window
    <3> QED
        BY <2>1, <3>1 DEF AskingInv, ModeIsShown, Left, AskedFor
  <2> QED
      BY <2>2, <2>3
<1>3. ASSUME FinishSetup PROVE AskingInv' /\ ModeIsShown'
    BY <1>3 DEF FinishSetup, AskingInv, ModeIsShown, Left, AskedFor
<1>4. ASSUME NEW m \in Modes, Navigate(m) \/ ModeClicked(m) PROVE AskingInv' /\ ModeIsShown'
  <2>1. current \in Modes /\ UNCHANGED <<addedModes, current, page, faults, closed>> /\ m # "close"
      BY <1>4, ModesAssumption DEF Navigate, ModeClicked, window, KeysInv, ToSet
  <2>2. CASE asking' = Append(asking, <<current, m>>)
      BY <2>1, <2>2, AskingMore DEF ModeIsShown
  <2>3. CASE asking' = asking /\ checked' = current
      BY <2>1, <2>3 DEF AskingInv, ModeIsShown, Left, AskedFor
  <2> QED
      BY <1>4, <2>2, <2>3 DEF Navigate, ModeClicked
<1>5. ASSUME CloseEvent PROVE AskingInv' /\ ModeIsShown'
  <2>1. /\ current \in Modes /\ UNCHANGED <<addedModes, current, page, checked, faults, closed>>
        /\ asking' = Append(asking, <<current, "close">>)
      BY <1>5 DEF CloseEvent, window, KeysInv
  <2> QED
      BY <2>1, AskingMore DEF ModeIsShown
<1>6. ASSUME NEW shown \in SUBSET Bars, NEW m \in Modes, RestoreState(shown, m) PROVE AskingInv' /\ ModeIsShown'
  <2>1. UNCHANGED <<addedModes, current, page, checked, faults, closed>> /\ asking = <<>> /\ m # "close"
      BY <1>6, ModesAssumption DEF RestoreState, window
  <2>2. CASE m \in ToSet(addedModes) /\ m # current
    <3>1. current \in Modes /\ asking' = Append(asking, <<current, m>>)
        BY <1>6, <2>1, <2>2 DEF RestoreState, KeysInv, ToSet
    <3> QED
        BY <2>1, <3>1, AskingMore DEF ModeIsShown
  <2>3. CASE ~(m \in ToSet(addedModes) /\ m # current)
      BY <1>1, <1>6, <2>1, <2>3 DEF RestoreState
  <2> QED
      BY <2>2, <2>3
<1>7. ASSUME Agrees PROVE AskingInv' /\ ModeIsShown'
  <2>1. asking # <<>> /\ asking' = Front(asking) /\ addedModes' = addedModes
      BY <1>7 DEF Agrees
  <2>2. Len(asking) \in Nat \ {0} /\ Len(asking') = Len(asking) - 1
      BY <2>1, AnsweredOne
  <2>3. CASE AskedFor = "close"
    <3>1. UNCHANGED <<current, page, checked, faults>> /\ closed'
        BY <1>7, <2>3 DEF Agrees, window
    <3>2. AskingInv'
        BY <2>1, <3>1, AskingLess
    <3>3. ASSUME asking' = <<>>, faults = 0 PROVE checked = current
      <4>1. Len(asking) = 1
          BY <2>2, <3>3
      <4> QED
          BY <2>3, <3>3, <4>1 DEF AskingInv, BenchNext
    <3> QED
        BY <3>1, <3>2, <3>3 DEF ModeIsShown
  <2>4. CASE AskedFor # "close"
    <3>1. current' = AskedFor /\ page' = AskedFor /\ checked' = AskedFor
        BY <1>7, <2>4 DEF Agrees, ShowMode
    <3>2. Len(asking) > 1 => faults' = 1
        BY <1>7, <2>4 DEF Agrees
    <3> QED
        BY <2>1, <3>1, <3>2, AskingLess DEF ModeIsShown
  <2> QED
      BY <2>3, <2>4
<1>8. ASSUME Refuses PROVE AskingInv' /\ ModeIsShown'
  <2>1. /\ asking # <<>> /\ asking' = Front(asking) /\ faults' = Overtaken /\ checked' = Kept
        /\ UNCHANGED <<addedModes, current, page, closed>>
      BY <1>8 DEF Refuses
  <2>2. Len(asking) \in Nat \ {0} /\ Len(asking') = Len(asking) - 1
      BY <2>1, AnsweredOne
  <2>3. AskingInv'
      BY <2>1, AskingLess DEF Overtaken
  <2>4. ASSUME asking' = <<>>, faults' = 0 PROVE checked' = current
    <3>1. Len(asking) = 1 /\ faults = 0
        BY <2>1, <2>2, <2>4 DEF Overtaken
    <3> QED
        BY <2>1, <3>1 DEF AskingInv, Kept, BenchNext
  <2> QED
      BY <2>1, <2>3, <2>4 DEF ModeIsShown
<1>9. ASSUME GuardRaises PROVE AskingInv' /\ ModeIsShown'
    BY <1>9, AskingLess DEF GuardRaises, window, ModeIsShown
<1>10. ASSUME NEW c \in Commands, Contribute(c) \/ Bind(c) \/ Trigger(c) PROVE AskingInv' /\ ModeIsShown'
    BY <1>1, <1>10 DEF Contribute, Bind, Trigger, window
<1>11. ASSUME NEW t \in enabled, OpenMenu(t) PROVE AskingInv' /\ ModeIsShown'
    BY <1>1, <1>11 DEF OpenMenu
<1>12. ASSUME \/ Confirmed \/ Cancelled \/ QtTogglesModeBar
              \/ \E b \in BOOLEAN : PresenterSays(b)
              \/ \E b \in Bars : BarClicked(b)
       PROVE AskingInv' /\ ModeIsShown'
    BY <1>1, <1>12 DEF Confirmed, Cancelled, QtTogglesModeBar, PresenterSays, BarClicked, window
<1>13. ASSUME NEW w \in DOMAIN Scope, NEW s \in {"shown", "hidden", "deleted"}, Owner(w, s)
       PROVE AskingInv' /\ ModeIsShown'
    BY <1>1, <1>13 DEF Owner, window
<1> QED
    BY <1>2, <1>3, <1>4, <1>5, <1>6, <1>7, <1>8, <1>9, <1>10, <1>11, <1>12, <1>13 DEF BenchNext
----------------------------------------------------------------------------
(* The toggle, the status area and the bars *)

\* What a check is not, the other is.
LEMMA BackIsTheOther == ASSUME NEW b \in BOOLEAN, confirming = {b} PROVE Back = ~b
<1>1. \A x \in BOOLEAN : x \notin confirming <=> x = ~b
    OBVIOUS
<1> QED
    BY <1>1 DEF Back

LEMMA ToggleNext == BenchInv /\ BenchNext => ToggleInv'
<1> SUFFICES ASSUME BenchInv, BenchNext PROVE ToggleInv'
    OBVIOUS
<1>1. ToggleInv
    BY DEF BenchInv
<1>2. ASSUME UNCHANGED toggling PROVE ToggleInv'
    BY <1>1, <1>2 DEF toggling, ToggleInv, ToggleIsTrue
<1>3. ASSUME NEW c \in Commands, Trigger(c) PROVE ToggleInv'
  <2>1. /\ confirming = {} /\ on' = ~on /\ confirming' = {on'} /\ UNCHANGED <<truth, moved>>
      BY <1>3 DEF Trigger
  <2>2. on \in BOOLEAN /\ truth \in BOOLEAN /\ (~moved => on = truth)
      BY <1>1, <2>1 DEF ToggleInv, ToggleIsTrue
  <2> QED
      BY <2>1, <2>2 DEF ToggleInv, ToggleIsTrue
<1>4. ASSUME Confirmed PROVE ToggleInv'
  <2>1. confirming # {} /\ truth' \in confirming /\ confirming' = {} /\ UNCHANGED <<on, moved>>
      BY <1>4 DEF Confirmed
  <2>2. /\ on \in BOOLEAN /\ confirming \in {{}, {TRUE}, {FALSE}}
        /\ (confirming # {} /\ ~moved => confirming = {on})
      BY <1>1 DEF ToggleInv
  <2>3. truth' \in BOOLEAN
    <3>1. confirming \subseteq BOOLEAN
        BY <2>2
    <3> QED
        BY <2>1, <3>1
  <2>4. ~moved' => on' = truth'
      BY <2>1, <2>2
  <2> QED
      BY <2>1, <2>2, <2>3, <2>4 DEF ToggleInv, ToggleIsTrue
<1>5. ASSUME Cancelled PROVE ToggleInv'
  <2>1. confirming # {} /\ on' = Back /\ confirming' = {} /\ UNCHANGED <<truth, moved>>
      BY <1>5 DEF Cancelled
  <2>2. PICK b \in BOOLEAN : confirming = {b}
      BY <1>1, <2>1 DEF ToggleInv
  <2>3. on' = ~b
      BY <2>1, <2>2, BackIsTheOther
  <2>4. ~moved => on = b /\ truth = ~on
      BY <1>1, <2>1, <2>2 DEF ToggleInv
  <2>5. truth \in BOOLEAN
      BY <1>1 DEF ToggleInv
  <2> QED
      BY <2>1, <2>3, <2>4, <2>5 DEF ToggleInv, ToggleIsTrue
<1>6. ASSUME NEW b \in BOOLEAN, PresenterSays(b) PROVE ToggleInv'
  <2>1. truth' = b /\ on' = b /\ moved' = (confirming # {}) /\ confirming' = confirming
      BY <1>6 DEF PresenterSays
  <2>2. confirming' # {} => moved'
      BY <2>1, Zenon
  <2>3. confirming' \in {{}, {TRUE}, {FALSE}}
    <3>1. confirming' = confirming
        BY <1>6 DEF PresenterSays
    <3>2. confirming \in {{}, {TRUE}, {FALSE}}
        BY <1>1 DEF ToggleInv
    <3> QED
        BY <3>1, <3>2
  <2>4. truth' \in BOOLEAN /\ on' = truth'
      BY <2>1
  <2> QED
      BY <2>2, <2>3, <2>4 DEF ToggleInv, ToggleIsTrue
<1>7. \/ UNCHANGED toggling
      \/ \E c \in Commands : Trigger(c)
      \/ Confirmed \/ Cancelled \/ \E b \in BOOLEAN : PresenterSays(b)
    BY DEF BenchNext, Contribute, Bind, AddMode, Navigate, ModeClicked, FinishSetup, OpenMenu, CloseEvent, Agrees,
       Refuses, GuardRaises, Owner, QtTogglesModeBar, BarClicked, RestoreState
<1> QED
    BY <1>2, <1>3, <1>4, <1>5, <1>6, <1>7

LEMMA StatusNext == BenchInv /\ BenchNext => StatusInv'
<1> SUFFICES ASSUME BenchInv, BenchNext PROVE StatusInv'
    OBVIOUS
<1>1. StatusInv
    BY DEF BenchInv
<1>2. ASSUME UNCHANGED <<widgets, visible, current>> PROVE StatusInv'
    BY <1>1, <1>2 DEF StatusInv, StatusIsShown
<1>3. ASSUME widgets' = widgets, visible' = Slots(current', widgets) PROVE StatusInv'
    BY <1>1, <1>3 DEF StatusInv, StatusIsShown
<1>4. ASSUME NEW w \in DOMAIN Scope, NEW s \in {"shown", "hidden", "deleted"}, Owner(w, s) PROVE StatusInv'
  <2>1. /\ widgets' = [widgets EXCEPT ![w] = s] /\ current' = current
        /\ visible' = (visible \ {w}) \cup ({w} \cap Slots(current, widgets'))
      BY <1>4 DEF Owner
  <2>2. widgets' = [x \in DOMAIN Scope |-> widgets'[x]] /\ \A x \in DOMAIN Scope \ {w} : widgets'[x] = widgets[x]
      BY <1>1, <2>1 DEF StatusInv
  <2>3. Slots(current, widgets') \ {w} = Slots(current, widgets) \ {w}
      BY <2>2 DEF Slots
  <2>4. visible' = Slots(current, widgets')
      BY <1>1, <2>1, <2>3 DEF StatusInv, StatusIsShown
  <2> QED
      BY <2>1, <2>2, <2>4 DEF StatusInv, StatusIsShown
<1>5. ASSUME NEW m \in Modes, AddMode(m) PROVE StatusInv'
    BY <1>2, <1>3, <1>5 DEF AddMode, ShowMode
<1>6. ASSUME Agrees PROVE StatusInv'
    BY <1>2, <1>3, <1>6 DEF Agrees, ShowMode
<1>7. ASSUME FinishSetup PROVE StatusInv'
    BY <1>3, <1>7 DEF FinishSetup
<1>8. \/ UNCHANGED <<widgets, visible, current>>
      \/ \E w \in DOMAIN Scope, s \in {"shown", "hidden", "deleted"} : Owner(w, s)
      \/ \E m \in Modes : AddMode(m)
      \/ Agrees \/ FinishSetup
    BY DEF BenchNext, Contribute, Bind, Navigate, ModeClicked, OpenMenu, CloseEvent, Refuses, GuardRaises, Trigger,
       Confirmed, Cancelled, PresenterSays, QtTogglesModeBar, BarClicked, RestoreState, statusArea
<1> QED
    BY <1>2, <1>4, <1>5, <1>6, <1>7, <1>8

LEMMA BarsNext == BenchInv /\ BenchNext => BarsInv'
<1> SUFFICES ASSUME BenchInv, BenchNext PROVE BarsInv'
    OBVIOUS
<1>1. BarsInv
    BY DEF BenchInv
<1>2. ASSUME UNCHANGED <<bars, ticked>> PROVE BarsInv'
    BY <1>1, <1>2 DEF BarsInv, BarsAreTicked
<1>3. ASSUME NEW b \in Bars, BarClicked(b) PROVE BarsInv'
  <2>1. /\ ticked' = (IF b \in ticked THEN ticked \ {b} ELSE ticked \cup {b})
        /\ bars' = (bars \ {b}) \cup ({b} \cap ticked')
      BY <1>3 DEF BarClicked
  <2>2. bars = ticked /\ ticked' \subseteq Bars
      BY <1>1, <2>1 DEF BarsInv, BarsAreTicked
  <2>3. \A x : x \in ticked' <=> IF x = b THEN b \notin ticked ELSE x \in ticked
      BY <2>1
  <2>4. bars' = ticked'
      BY <2>1, <2>2, <2>3
  <2> QED
      BY <2>2, <2>4 DEF BarsInv, BarsAreTicked
<1>4. ASSUME QtTogglesModeBar PROVE BarsInv'
  <2>1. /\ bars' = (IF "mode" \in bars THEN bars \ {"mode"} ELSE bars \cup {"mode"})
        /\ ticked' = (ticked \ {"mode"}) \cup (bars' \cap {"mode"})
      BY <1>4 DEF QtTogglesModeBar, Followed
  <2>2. bars = ticked /\ bars' \subseteq Bars
      BY <1>1, <2>1 DEF BarsInv, BarsAreTicked, Bars
  <2>3. \A x : x # "mode" => (x \in bars' <=> x \in bars)
      BY <2>1
  <2>4. bars' = ticked'
      BY <2>1, <2>2, <2>3
  <2> QED
      BY <2>2, <2>4 DEF BarsInv, BarsAreTicked
<1>5. ASSUME NEW shown \in SUBSET Bars, NEW m \in Modes, RestoreState(shown, m) PROVE BarsInv'
  <2>1. /\ bars' = shown
        /\ ticked' = (((ticked \ {"mode"}) \cup (shown \cap {"mode"})) \ {"status"}) \cup (shown \cap {"status"})
      BY <1>5 DEF RestoreState, Followed
  <2>2. \A x \in Bars : x \in ticked' <=> x \in shown
      BY <2>1 DEF Bars
  <2>3. ticked' \subseteq Bars
      BY <1>1, <2>1 DEF BarsInv, Bars
  <2> QED
      BY <2>1, <2>2, <2>3 DEF BarsInv, BarsAreTicked
<1>6. \/ UNCHANGED <<bars, ticked>>
      \/ \E b \in Bars : BarClicked(b)
      \/ QtTogglesModeBar
      \/ \E shown \in SUBSET Bars, m \in Modes : RestoreState(shown, m)
    BY DEF BenchNext, Contribute, Bind, AddMode, Navigate, ModeClicked, FinishSetup, OpenMenu, CloseEvent, Agrees,
       Refuses, GuardRaises, Trigger, Confirmed, Cancelled, PresenterSays, Owner, statusArea
<1> QED
    BY <1>2, <1>3, <1>4, <1>5, <1>6
----------------------------------------------------------------------------
LEMMA BenchNextInv == BenchInv /\ [BenchNext]_benchVars => BenchInv'
<1> SUFFICES ASSUME BenchInv, [BenchNext]_benchVars PROVE BenchInv'
    OBVIOUS
<1>1. CASE BenchNext
    BY <1>1, KeysNext, ModesNext, ToggleNext, StatusNext, BarsNext DEF BenchInv
<1>2. CASE UNCHANGED benchVars
  <2> USE <1>2 DEF BenchInv, benchVars, window, menus, toggling, statusArea
  <2>1. KeysInv'
      BY DEF KeysInv, NoTwoShareAKey, Fitting
  <2>2. AskingInv' /\ ModeIsShown'
      BY DEF AskingInv, ModeIsShown, Left, AskedFor
  <2>3. ToggleInv'
      BY DEF ToggleInv, ToggleIsTrue
  <2>4. StatusInv' /\ BarsInv'
      BY DEF StatusInv, StatusIsShown, BarsInv, BarsAreTicked
  <2> QED
      BY <2>1, <2>2, <2>3, <2>4
<1> QED
    BY <1>1, <1>2

\* Two commands whose shortcuts work can be on screen together.
LEMMA WorkingKeysDiffer == KeysInv => KeysAreUnambiguous
<1> SUFFICES ASSUME KeysInv PROVE KeysAreUnambiguous
    OBVIOUS
<1>1. Reachable \subseteq Fitting
    BY DEF KeysInv, Reachable
<1>2. ASSUME NEW c \in Reachable, NEW d \in Reachable, c # d PROVE c.key = "none" \/ c.key # d.key
  <2>1. current # "all"
      BY ModesAssumption DEF KeysInv
  <2>2. Meet(c.scope, d.scope)
      BY <1>1, <2>1 DEF Fitting, Meet
  <2> QED
      BY <1>1, <1>2, <2>2 DEF KeysInv, NoTwoShareAKey, Fitting
<1> QED
    BY <1>1, <1>2 DEF KeysAreUnambiguous, Fitting

\* The window shows the mode, and does with a key what the mode does (workbench_shell.py,
\* action_registry.py, navigation_service.py).
THEOREM BenchCorrect == BenchSpec => []ShellKept
<1>1. BenchInv => ShellKept
    BY WorkingKeysDiffer DEF BenchInv, ToggleInv, StatusInv, BarsInv, ShellKept
<1> QED
    BY <1>1, BenchInitInv, BenchNextInv, PTL DEF BenchSpec
----------------------------------------------------------------------------
\* What is around the screens is right: the window, its dialogs, its layouts
\* (extensions/pyside_mvc/workbench).
THEOREM WorkbenchCorrect == WorkbenchSpec => []WorkbenchKept
    BY BenchCorrect, OptionsCorrect, LayoutsCorrect, PTL DEF WorkbenchSpec, WorkbenchKept

\* What the screens show, and how it gets there, is right: the GUI thread, presenters, views,
\* rows and outputs (extensions/pyside_mvc).
THEOREM ScreenCorrect == ScreenSpec => []ScreenKept
    BY GuiCorrect, ScreensCorrect, ViewCorrect, OrderCorrect, OutputCorrect, PTL DEF ScreenSpec, ScreenKept

=============================================================================
