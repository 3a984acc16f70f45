---------------------------- MODULE PageMeaning ----------------------------
(***************************************************************************)
(* What a page is meant to show (the table of tags in parser.cpp:189-202). *)
(*                                                                         *)
(* A page is text with tags in it.  It may call templates, which are text  *)
(* with tags as well, and each call opens a frame.  Inside a frame         *)
(* <!--if_template--> opens a branch, <!--else_template--> turns it over   *)
(* and <!--end_if--> closes it; text and values are shown exactly where    *)
(* every branch around them, in this frame and at the calls that led to    *)
(* it, holds.  A template called for an Ajax answer is written inside a    *)
(* JavaScript string: all that it shows is escaped, and nothing else is.   *)
(***************************************************************************)
EXTENDS Naturals, Sequences, SequencesExt

VARIABLES
    frames,     \* the page and the template calls it is in, outermost first
    out,        \* what has been shown, in order
    seg         \* number of the segments run so far

vars == <<frames, out, seg>>

Frame(base, ajax) == [base |-> base, ajax |-> ajax, branches |-> <<>>]

ShownIn(f) == f.base /\ \A i \in DOMAIN f.branches : f.branches[i]
Shown == ShownIn(Last(frames))
Quoted == \E i \in DOMAIN frames : frames[i].ajax

Piece(what) == [what |-> what, seg |-> seg, esc |-> Quoted]

Put(whats) == IF Shown THEN out \o [i \in DOMAIN whats |-> Piece(whats[i])] ELSE out

WithBranches(b) == [frames EXCEPT ![Len(frames)].branches = b]
-----------------------------------------------------------------------------
Init == frames = <<>> /\ out = <<>> /\ seg = 0

Start ==
    /\ frames = <<>>
    /\ frames' = <<Frame(TRUE, FALSE)>>
    /\ out' = <<>>
    /\ seg' = 0

\* A segment is the text before a tag and then the tag.
Segment ==
    /\ frames # <<>>
    /\ seg' = seg + 1
    /\ LET top == Last(frames).branches IN
       \/ /\ \E whats \in {<<>>, <<"text">>, <<"value">>, <<"text", "value">>} :
                 out' = Put(whats)
          /\ UNCHANGED frames
       \/ /\ out' \in {out, Put(<<"text">>)}
          /\ \/ \E b \in BOOLEAN : frames' = WithBranches(Append(top, b))
             \/ /\ top # <<>>
                /\ \/ frames' = WithBranches(Append(Front(top), ~Last(top)))
                   \/ frames' = WithBranches(Front(top))
             \/ \E ajax \in BOOLEAN : frames' = Append(frames, Frame(Shown, ajax))
             \/ frames' = Front(frames)         \* the end of a template, or of the page
             \/ \E i \in DOMAIN frames :        \* an error leaves the frames from i on
                    frames' = SubSeq(frames, 1, i - 1)

Next == Start \/ Segment

Spec == Init /\ [][Next]_vars
=============================================================================
