------------------------------ MODULE MCObsTrial ------------------------------
(* A small instance of ObsTrial for TLC; one unit of time is 250 ms. *)
EXTENDS ObsTrial

MCDelays == {0, 2, 3}

\* Episodes that a reading may miss and that it may not, in the first cycle
\* or later, and one that outlasts the trial; each shows in one or more of the
\* sources that can show it.  Of those that show in none, one of each collector.
MCEpisode(k, from, to) ==
  {[kind |-> k, from |-> from, to |-> to, seenBy |-> S] :
     S \in SUBSET {s \in DOMAIN Senses : k \in Senses[s]} \ {{}}}
MCEpisodes ==
  {[kind |-> k, from |-> 0, to |-> IF k = "none" THEN 0 ELSE 5, seenBy |-> {}] :
     k \in {"none", "freeze", "excursion"}}
  \cup UNION {MCEpisode(k, a, 9) : k \in {"suspend", "wakeup"}, a \in {0, 2, 3}}
  \cup UNION {MCEpisode(k, t[1], t[2]) :
                k \in {"freeze", "excursion", "clamp", "stray"},
                t \in {<<0, 4>>, <<1, 4>>, <<1, 5>>, <<2, 9>>}}
===============================================================================
