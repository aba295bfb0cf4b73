---- MODULE MCBrowserTabs ----
(* Two tabs and another device; three refresh sessions let a token be      *)
(* renewed twice, or once and a second login follow.                       *)
EXTENDS BrowserTabs, TLC
Symmetry == Permutations(Tabs)
====
