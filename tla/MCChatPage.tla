---- MODULE MCChatPage ----
(* One saved story and two new ones.  What is excused by every property    *)
(* (see OneStory) is not followed further: an overlap with createDialog()  *)
(* and a page that was left.                                               *)
EXTENDS ChatPage

Followed == ~tangled /\ page # "left"
====
