----------------------------- MODULE Pagination -----------------------------
(***************************************************************************)
(* manage_paginated_embed (utility/utility.cpp): a coroutine of its own    *)
(* that answers a command with a list of texts.  It fills pages of limited *)
(* size; more than one are displayed one at a time, and four buttons turn  *)
(* them until nobody has pressed one for a while.                          *)
(*                                                                         *)
(* A text is a record whose size is what counts here.  The first page has  *)
(* index 0 as in the code, the pages themselves are sequences of texts.    *)
(* The buttons carry the id of the command, so that a list hears of its    *)
(* own buttons only; it hears of them only while it waits for them.        *)
(***************************************************************************)
EXTENDS Replies, Sequences, SequencesExt

CONSTANTS
  Handlers,          \* the commands that may be in progress together
  TextLimit,         \* max_desc_size: 2000
  MaxClicks          \* bound: how often the buttons of a list are heard

VARIABLE
  list               \* the coroutine that lists for each handler, if any

Button == {"L", "l", "r", "R"}

ListSteps == {"none", "processing", "failing", "single", "show", "reply", "wait"}

NoList ==
  [step |-> "none", texts |-> <<>>, pages |-> <<>>, current |-> 0, next |-> 0,
   clicks |-> 0]

Command(h) == <<h, "command">>

s_size_overhead == 3

-----------------------------------------------------------------------------
(* Loops over sequences, as functions of how far they have come.           *)

\* The elements of s that are wanted, in their order.
Selection(s, wanted) ==
  LET chosen[n \in 0 .. Len(s)] ==
        IF n = 0 THEN <<>>
        ELSE IF s[n] \in wanted THEN Append(chosen[n - 1], s[n])
        ELSE chosen[n - 1]
  IN chosen[Len(s)]

Total(sizes) ==
  LET total[n \in 0 .. Len(sizes)] ==
        IF n = 0 THEN 0 ELSE total[n - 1] + sizes[n]
  IN total[Len(sizes)]

-----------------------------------------------------------------------------
(* Filling the pages.                                                      *)

\* An empty text, or one that no page can hold, is left out.
Displayable(text) == text.size > 0 /\ text.size + s_size_overhead <= TextLimit

\* Mutant: current_size is not reset for a new page.
AddKeepingSize(filled, text) ==
  LET new == text.size + s_size_overhead
  IN IF ~ Displayable(text)
       THEN filled
       ELSE [pages |-> IF filled.size + new > TextLimit
                         THEN Append(filled.pages, <<text>>)
                         ELSE Append(Front(filled.pages), Append(Last(filled.pages), text)),
             size |-> filled.size + new]

\* One round of the loop: the text goes on the last page or begins a new one.
Add(filled, text) ==
  LET new == text.size + s_size_overhead
  IN IF ~ Displayable(text)
       THEN filled
       ELSE IF filled.size + new > TextLimit
              THEN [pages |-> Append(filled.pages, <<text>>), size |-> new]
              ELSE [pages |-> Append(Front(filled.pages), Append(Last(filled.pages), text)),
                    size |-> filled.size + new]

\* The pages of the list; a single empty one when no text is displayable.
Pages(texts) ==
  LET filled[n \in 0 .. Len(texts)] ==
        IF n = 0 THEN [pages |-> << <<>> >>, size |-> 0]
                 ELSE Add(filled[n - 1], texts[n])
  IN filled[Len(texts)].pages

-----------------------------------------------------------------------------
(* The coroutine.                                                          *)

DoList(h, l) == list' = [list EXCEPT ![h] = l]

\* The call of manage_paginated_embed: it copies event_data and goes on when the
\* command that called it has ended.
StartList(h, texts) ==
  DoList(h, [NoList EXCEPT !.step = "processing", !.texts = texts])

\* "Processing the data, please wait..."
Process(h) ==
  /\ list[h].step = "processing"
  /\ Respond(Command(h), Text)
  /\ LET pages == Pages(list[h].texts)
     IN DoList(h, [list[h] EXCEPT
                     !.pages = pages,
                     !.step = IF pages = << <<>> >>  THEN "failing"
                              ELSE IF Len(pages) = 1 THEN "single"
                                                     ELSE "show",
                     !.current = 1, !.next = 0])

\* Nothing can be displayed.
FailList(h) ==
  /\ list[h].step = "failing"
  /\ Respond(Command(h), Text)
  /\ DoList(h, NoList)

\* One page is displayed with its buttons disabled, and that was all.
ShowSinglePage(h) ==
  /\ list[h].step = "single"
  /\ Respond(Command(h), Page(0))
  /\ DoList(h, NoList)

\* The round begins with the page, unless it is there already.  Whether it was
\* displayed is not asked; nor is there a button to answer in the first round.
ShowPage(h) ==
  LET l == list[h]
      next_step == IF l.clicks = 0 THEN "wait" ELSE "reply"
  IN /\ l.step = "show"
     /\ IF l.current = l.next
          THEN UNCHANGED replies
          ELSE Respond(Command(h), Page(l.next))
     /\ DoList(h, [l EXCEPT !.step = next_step, !.current = l.next])

\* co_reply to the button; clicks that come now are nobody's.
ReplyToButton(h) ==
  /\ list[h].step = "reply"
  /\ DoList(h, [list[h] EXCEPT !.step = "wait"])
  /\ UNCHANGED replies

\* Mutant: the first page has one before it.
TurnedBelow(l, button) ==
  CASE button = "L" -> 0
    [] button = "l" -> l.next - 1
    [] button = "r" -> IF l.next # Len(l.pages) - 1 THEN l.next + 1 ELSE l.next
    [] button = "R" -> Len(l.pages) - 1

\* Mutant: the last page is taken to be one further.
TurnedTooFar(l, button) ==
  CASE button = "L" -> 0
    [] button = "l" -> IF l.next # 0 THEN l.next - 1 ELSE l.next
    [] button = "r" -> IF l.next # Len(l.pages) THEN l.next + 1 ELSE l.next
    [] button = "R" -> Len(l.pages) - 1

Turned(l, button) ==
  CASE button = "L" -> 0
    [] button = "l" -> IF l.next # 0 THEN l.next - 1 ELSE l.next
    [] button = "r" -> IF l.next # Len(l.pages) - 1 THEN l.next + 1 ELSE l.next
    [] button = "R" -> Len(l.pages) - 1

\* Anybody presses a button of the page in the channel.
Click(h, button) ==
  LET l == list[h]
  IN /\ l.step = "wait"
     /\ l.clicks < MaxClicks
     /\ response[Command(h)].what = "page"
     /\ DoList(h, [l EXCEPT !.step = "show", !.next = Turned(l, button),
                            !.clicks = @ + 1])
     /\ UNCHANGED replies

\* Mutant: there is no timer.
NeverExpires(h) == FALSE

\* The timer fires, or waiting ends with an exception or a cancelled event.
Expire(h) ==
  /\ list[h].step = "wait"
  /\ Respond(Command(h), Text)
  /\ DoList(h, NoList)

\* What goes on without anybody's click.
ListContinues(h) ==
  \/ Process(h) \/ FailList(h) \/ ShowSinglePage(h) \/ ShowPage(h)
  \/ ReplyToButton(h) \/ Expire(h)

ListStep(h) == ListContinues(h) \/ \E b \in Button : Click(h, b)

-----------------------------------------------------------------------------
ListTypeOK ==
  \A h \in Handlers :
    /\ list[h].step \in ListSteps
    /\ list[h].clicks \in 0 .. MaxClicks
    /\ list[h].current \in 0 .. Len(list[h].texts)
    /\ list[h].next \in 0 .. Len(list[h].texts)

SizeOfPage(page) == Total([n \in DOMAIN page |-> page[n].size + s_size_overhead])

\* The pages of every list hold the texts in their order and lose only those no
\* page can hold; none is too long for Discord, and none was begun before the
\* text had no room on the page before.
PagesHoldTexts ==
  \A h \in Handlers :
    LET pages == list[h].pages
        texts == list[h].texts
    IN list[h].step \in {"single", "show", "reply", "wait"} =>
         /\ FlattenSeq(pages) = Selection(texts, {t \in ToSet(texts) : Displayable(t)})
         /\ \A n \in DOMAIN pages : SizeOfPage(pages[n]) <= TextLimit
         /\ \A n \in 2 .. Len(pages) :
              SizeOfPage(Append(pages[n - 1], Head(pages[n]))) > TextLimit

\* While a list waits for a click, the page it believes to show exists and is
\* the one the user sees, whatever was clicked, lost or shown before; unless a
\* call to Discord failed, which the loop does not look at.
PageIsShown ==
  \A h \in Handlers :
    list[h].step = "wait" =>
      /\ list[h].current \in 0 .. Len(list[h].pages) - 1
      /\ Command(h) \in failed \/ response[Command(h)] = Page(list[h].current)
=============================================================================
