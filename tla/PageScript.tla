----------------------------- MODULE PageScript -----------------------------
(***************************************************************************)
(* Dynamic pages: the script the page compiler makes of a page             *)
(* (csp_parser, parser.cpp) running against the io object of the page      *)
(* (http_sq, lig_httpd.cpp).                                               *)
(*                                                                         *)
(* The compiler cuts a page into segments, each the text before a tag and  *)
(* the tag, and turns segment i into io.idxWrite(i), which writes the      *)
(* text, followed by what the tag stands for.  An if does not skip         *)
(* anything: it sets flag_switch of the io object to false and the writes  *)
(* that follow do nothing.  Each template has one io object per page,      *)
(* which every call of the template resets and uses.  While an Ajax call   *)
(* writes a template into a JavaScript string, the global pCstrLock holds  *)
(* the io object that started it and all text is written escaped.          *)
(*                                                                         *)
(* A behaviour is the run of requests of one page whose segments are       *)
(* chosen as they are reached, so every page of up to MaxSegs segments is  *)
(* covered, and a loop of the script is a longer page.  Slack names what   *)
(* the authors of the pages do not refrain from:                           *)
(*   "nested"    an if inside an if                                        *)
(*   "pageElse"  an else outside any template                              *)
(*   "hidden"    a template called where an if has hidden the text         *)
(*   "adjacent"  a tag that follows another with no text between them      *)
(*   "recursive" a template called while it is running                     *)
(*   "retest"    code that changes the condition of an if it is inside     *)
(*   "raw"       code that writes with io.handle or io.ajax* where an Ajax  *)
(*               call is in progress or an if has hidden the text          *)
(* What io.ajaxTemplate itself writes around the template, the head and    *)
(* the tail of a JSON item, is left out: it is never escaped, and does not *)
(* look at the switch.                                                     *)
(***************************************************************************)
EXTENDS Naturals, Sequences, SequencesExt

CONSTANTS
    Templates,      \* the templates of the page
    Conds,          \* the conditions its ifs test
    Slack,          \* what the authors do not refrain from
    MaxSegs,        \* bound on the segments a request runs
    MaxDepth,       \* bound on the calls inside calls
    MaxRequests,    \* bound on the requests
    Page,           \* the io object of the page itself
    NoObj           \* pCstrLock is NULL

ASSUME SlackAssumption ==
    Slack \subseteq {"nested", "pageElse", "hidden", "adjacent", "recursive", "retest", "raw"}
ASSUME PageAssumption == Page \notin Templates /\ NoObj \notin Templates \cup {Page}

Objs == Templates \cup {Page}

VARIABLES
    stack,          \* the calls in progress, the page first
    flag_switch,    \* per io object: do its writes reach the client
    pCstrLock,      \* the io object that had the text escaped, or NoObj
    env,            \* the value each condition has now
    out,            \* what this request has written
    seg,            \* segments this request has run
    requests        \* requests so far

vars == <<stack, flag_switch, pCstrLock, env, out, seg, requests>>

(***************************************************************************)
(* A call.  on: some segment of the template had text, so that             *)
(* thePosIdx starts there (onTemplate looks for the first node named       *)
(* "segment", and a segment without text is replaced by its tag).          *)
(* expr: IfExpressStr.  ifs and base are history: the conditions of the    *)
(* ifs it is inside and what they were worth, and whether the call was     *)
(* made where text is shown.                                               *)
(***************************************************************************)
Call(obj, ajax, base) ==
    [obj |-> obj, ajax |-> ajax, on |-> obj = Page, expr |-> {}, ifs |-> <<>>, base |-> base]

Top == Last(stack)
InTemplate == Top.obj # Page
SetTop(f) == [stack EXCEPT ![Len(stack)] = f]

Hidden == ~Top.base \/ \E i \in DOMAIN Top.ifs : ~Top.ifs[i].value

\* The calls in progress that io.ajaxTemplate made.
AjaxCalls(stk) == {i \in DOMAIN stk : stk[i].ajax}

Allowed(what) == what \in Slack
-----------------------------------------------------------------------------
\* The tags whose node in the parse tree has a child of its own: idxWrite takes
\* such a node for a segment and writes the characters outside that child.
Parents == {"if_head", "exec_macro", "html_macro", "var_express"}

\* What is written: text or a value, of which segment, escaped or not.  hidden
\* and quoted are history: whether the branches around it say that it should
\* not be, and whether an Ajax call is in progress.
Piece(what) ==
    [what |-> what, seg |-> seg, esc |-> pCstrLock # NoObj,
     hidden |-> Hidden, quoted |-> AjaxCalls(stack) # {}]

\* io.write and the like: nothing unless the switch is on.
Written(whats) ==
    IF flag_switch[Top.obj] THEN [i \in DOMAIN whats |-> Piece(whats[i])] ELSE <<>>

\* io.idxWrite for a segment whose tag is of this kind.
IdxWrite(kind, text) ==
    IF text THEN <<"text">> ELSE IF kind \in Parents THEN <<"markup">> ELSE <<>>

\* The next segment is reached: it has text before its tag or not.  The
\* segments of a template before the first one with text are not compiled.
Reach(text) ==
    /\ stack # <<>>
    /\ seg < MaxSegs
    /\ text \/ Allowed("adjacent")
    /\ seg' = seg + 1
    /\ UNCHANGED <<requests>>

Compiled(text) == Top.on \/ text
On(text) == [Top EXCEPT !.on = @ \/ text]

\* A segment that writes its text, and then the pieces given, and no more.
Writes(kind, text, more) ==
    /\ Reach(text)
    /\ out' = out \o (IF Compiled(text) THEN Written(IdxWrite(kind, text) \o more) ELSE <<>>)

\* A comment, a definition, the declaration of a template; and $@t(...) inside a
\* template: the loop over the segments of a template has no case for it.
Plain ==
    \E kind \in {"memo", "html_macro", "exec_macro"}, text \in BOOLEAN :
        /\ kind = "html_macro" => ~InTemplate
        /\ kind = "exec_macro" => InTemplate
        /\ Writes(kind, text, <<>>)
        /\ stack' = SetTop(On(text))
        /\ UNCHANGED <<flag_switch, pCstrLock, env>>

\* $!expression, ${id}, and $parameter of a template.
Express ==
    \E kind \in {"sq_express", "var_express"}, text \in BOOLEAN :
        /\ kind = "var_express" => InTemplate
        /\ Writes(kind, text, <<"value">>)
        /\ stack' = SetTop(On(text))
        /\ UNCHANGED <<flag_switch, pCstrLock, env>>

\* <!--if_template(c)-->: if(!(c)) io.innerClose();
IfHead ==
    \E c \in Conds, text \in BOOLEAN :
        /\ Top.ifs = <<>> \/ Allowed("nested")
        /\ Writes("if_head", text, <<>>)
        /\ flag_switch' = [flag_switch EXCEPT ![Top.obj] = @ /\ (Compiled(text) => env[c])]
        /\ stack' = SetTop([On(text) EXCEPT
                               !.expr = IF Compiled(text) THEN {c} ELSE @,
                               !.ifs = Append(@, [cond |-> c, value |-> env[c], turned |-> FALSE])])
        /\ UNCHANGED <<pCstrLock, env>>

Turned(branch) == [branch EXCEPT !.value = ~@, !.turned = TRUE]

\* <!--else_template-->: in a template, io.innerOpen(); if(IfExpressStr)
\* io.innerClose();  The loop over the segments of a page has no case for it.
IfElse ==
    \E text \in BOOLEAN :
        /\ Top.ifs # <<>> /\ ~Last(Top.ifs).turned
        /\ InTemplate \/ Allowed("pageElse")
        /\ Writes("if_else", text, <<>>)
        /\ flag_switch' =
               IF InTemplate /\ Compiled(text)
               THEN [flag_switch EXCEPT ![Top.obj] = \A c \in Top.expr : ~env[c]]
               ELSE flag_switch
        /\ stack' = SetTop([On(text) EXCEPT
                               !.ifs[Len(Top.ifs)] = Turned(@)])
        /\ UNCHANGED <<pCstrLock, env>>

\* <!--end_if-->: io.innerOpen();
IfEnd ==
    \E text \in BOOLEAN :
        /\ Top.ifs # <<>>
        /\ Writes("if_end", text, <<>>)
        /\ flag_switch' = [flag_switch EXCEPT ![Top.obj] = Compiled(text) \/ @]
        /\ stack' = SetTop([On(text) EXCEPT !.ifs = Front(@)])
        /\ UNCHANGED <<pCstrLock, env>>

\* io.handle writes as it is what io.write would escape; io.ajax* does so too
\* with all but the values in it, and does not look at the switch.  Where there
\* is nothing to escape or to hide they write what io.write does.
WritesRaw(text) ==
    /\ Reach(text)
    /\ \E handle \in BOOLEAN :
           LET raw == [Piece("value") EXCEPT !.esc = FALSE] IN
           out' = out \o (IF Compiled(text)
                          THEN Written(IdxWrite("script_code", text))
                               \o (IF handle /\ ~flag_switch[Top.obj] THEN <<>> ELSE <<raw>>)
                          ELSE <<>>)

\* <% code %>: it runs whatever the switch says; it may write a value and
\* change a condition.
Flips(c) ==
    /\ \/ Allowed("retest")
       \/ \A i \in DOMAIN stack : \A j \in DOMAIN stack[i].ifs : stack[i].ifs[j].cond # c
    /\ env' = [env EXCEPT ![c] = ~@]

Code ==
    \E text \in BOOLEAN :
        /\ \/ \E more \in {<<>>, <<"value">>} : Writes("script_code", text, more)
           \/ Allowed("raw") /\ WritesRaw(text)
        /\ \/ UNCHANGED env
           \/ Compiled(text) /\ \E c \in Conds : Flips(c)
        /\ stack' = SetTop(On(text))
        /\ UNCHANGED <<flag_switch, pCstrLock>>
-----------------------------------------------------------------------------
(***************************************************************************)
(* Calls.  An error leaves every call up to the one an io function of C++  *)
(* made (sq_call in Sq2AjaxInnerTemplate), or the whole page; that function   *)
(* and the normal end of the call release the lock the same way.           *)
(***************************************************************************)
\* Mutant: the lock is released by whoever ends first.
ReleaseAny(lock, obj) == NoObj
\* Mutant: the lock is not released.
ReleaseNone(lock, obj) == lock

Release(lock, obj) == IF lock = obj THEN NoObj ELSE lock

Innermost(s) == CHOOSE i \in s : \A j \in s : j <= i

Raise(stk, lock) ==
    IF AjaxCalls(stk) = {}
    THEN stack' = <<>> /\ pCstrLock' = lock
    ELSE LET i == Innermost(AjaxCalls(stk)) IN
         /\ stack' = SubSeq(stk, 1, i - 1)
         /\ pCstrLock' = Release(lock, stk[i - 1].obj)

\* The call of do_<template>: its first statement is io.getTemplate, which
\* resets the io object of the template.  getTemplate gives up when pLastStr
\* of the caller is NULL; the io object of a template never has it assigned,
\* so there it may find anything, and the call may fail.
Enter(t, ajax, lock, caller) ==
    LET callee == Call(t, ajax, ~Hidden) IN
    \E got \in IF InTemplate THEN BOOLEAN ELSE {TRUE} :
        IF got
        THEN /\ stack' = Append(SetTop(caller), callee)
             /\ flag_switch' = [flag_switch EXCEPT ![t] = TRUE]
             /\ pCstrLock' = lock
        ELSE /\ Raise(Append(SetTop(caller), callee), lock)
             /\ UNCHANGED flag_switch

MayCall(t) ==
    /\ Len(stack) <= MaxDepth
    /\ \A i \in DOMAIN stack : stack[i].obj = t => Allowed("recursive")
    /\ Hidden => Allowed("hidden")

\* $@t(...) in the page: do_t(..., session, io);
ExecMacro ==
    \E t \in Templates, text \in BOOLEAN :
        /\ stack # <<>> /\ ~InTemplate /\ MayCall(t)
        /\ Writes("exec_macro", text, <<>>)
        /\ Enter(t, FALSE, pCstrLock, On(text))
        /\ UNCHANGED env

\* <% do_t(..., session, io) %>
CodeCall ==
    \E t \in Templates, text \in BOOLEAN :
        /\ stack # <<>> /\ MayCall(t)
        /\ Compiled(text)
        /\ Writes("script_code", text, <<>>)
        /\ Enter(t, FALSE, pCstrLock, On(text))
        /\ UNCHANGED env

\* <% io.ajaxTemplate(id, do_t, ..., session, io) %>: the text of the call
\* is to be escaped from here on, unless it is already.
AjaxInnerTemplate ==
    \E t \in Templates, text \in BOOLEAN :
        /\ stack # <<>> /\ MayCall(t)
        /\ Compiled(text)
        /\ Writes("script_code", text, <<>>)
        /\ Enter(t, TRUE, IF pCstrLock = NoObj THEN Top.obj ELSE pCstrLock, On(text))
        /\ UNCHANGED env

\* <!--end template-->: the text before it, and back to the caller.
EndTemplate ==
    \E text \in BOOLEAN :
        /\ stack # <<>> /\ InTemplate /\ Top.ifs = <<>>
        /\ Writes("macro_end", text, <<>>)
        /\ stack' = Front(stack)
        /\ pCstrLock' = IF Top.ajax THEN Release(pCstrLock, stack[Len(stack) - 1].obj)
                        ELSE pCstrLock
        /\ UNCHANGED <<flag_switch, env>>

\* The end of the page: io.lastWrite(), which does not look at the switch.
LastWrite ==
    /\ stack # <<>> /\ ~InTemplate /\ Top.ifs = <<>>
    /\ Reach(TRUE)
    /\ out' = Append(out, Piece("text"))
    /\ stack' = <<>>
    /\ UNCHANGED <<flag_switch, pCstrLock, env>>

\* An error in the code of a segment or in an expression.
ScriptError ==
    \E text \in BOOLEAN :
        /\ stack # <<>>
        /\ Compiled(text)
        /\ Writes("script_code", text, <<>>)
        /\ Raise(stack, pCstrLock)
        /\ UNCHANGED <<flag_switch, env>>

\* squirrel_callback: get_page_sq resets the io object of the page.
Request ==
    /\ stack = <<>>
    /\ requests < MaxRequests
    /\ requests' = requests + 1
    /\ stack' = <<Call(Page, FALSE, TRUE)>>
    /\ flag_switch' = [flag_switch EXCEPT ![Page] = TRUE]
    /\ out' = <<>>
    /\ seg' = 0
    /\ UNCHANGED <<pCstrLock, env>>

Init ==
    /\ stack = <<>>
    /\ flag_switch \in [Objs -> BOOLEAN]
    /\ pCstrLock = NoObj
    /\ env \in [Conds -> BOOLEAN]
    /\ out = <<>>
    /\ seg = 0
    /\ requests = 0

Next ==
    \/ Request
    \/ stack # <<>> /\ (Plain \/ Express \/ IfHead \/ IfElse \/ IfEnd \/ Code)
    \/ ExecMacro \/ CodeCall \/ AjaxInnerTemplate \/ EndTemplate \/ LastWrite \/ ScriptError

Spec == Init /\ [][Next]_vars
-----------------------------------------------------------------------------
TypeOK ==
    /\ flag_switch \in [Objs -> BOOLEAN]
    /\ pCstrLock \in Objs \cup {NoObj}
    /\ env \in [Conds -> BOOLEAN]
    /\ \A i \in DOMAIN stack :
           /\ stack[i].obj = Page <=> i = 1
           /\ stack[i].expr \subseteq Conds

\* The page shows what it is meant to show: with no vice in Slack, the text
\* and the values in branches that hold, escaped inside an Ajax answer and only
\* there, whatever the calls, the errors and the earlier requests.
Meaning ==
    INSTANCE PageMeaning WITH
        frames <- [i \in DOMAIN stack |->
                      [base |-> stack[i].base, ajax |-> stack[i].ajax,
                       branches |-> [j \in DOMAIN stack[i].ifs |-> stack[i].ifs[j].value]]],
        out <- [i \in DOMAIN out |->
                   [what |-> out[i].what, seg |-> out[i].seg, esc |-> out[i].esc]]

ShowsItsMeaning == Meaning!Spec

\* pCstrLock is a global of the server: once no Ajax call is in progress, even
\* after an error inside one, it is free, or every later answer would be escaped.
LockReleased == AjaxCalls(stack) = {} => pCstrLock = NoObj

(***************************************************************************)
(* What the vices break.                                                   *)
(***************************************************************************)
\* The expression of an if decides ("<!--if_template(...)-->", parser.cpp:192):
\* nothing is written where the branches around it do not hold.
HiddenStaysHidden == \A i \in DOMAIN out : ~out[i].hidden

\* idxWrite writes the text of a segment and leaves the tag out ("the block
\* that this function does not output", lig_httpd.cpp:2154).
NoMarkup == \A i \in DOMAIN out : out[i].what # "markup"

\* What is written of text and values while an Ajax call is in progress is
\* escaped, for it ends up inside a JavaScript string.
AjaxEscaped == \A i \in DOMAIN out : out[i].quoted => out[i].esc
=============================================================================
