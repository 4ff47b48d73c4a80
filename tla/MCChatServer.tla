---------------------------- MODULE MCChatServer -----------------------------
\* Instances for TLC: see the table of runs in README.md.
EXTENDS ChatServer

CONSTANTS c1, c2, c3

MCClients == {c1, c2, c3}

\* Whole programs with short texts first, then every kind of frame, and texts of any length.
MCCases ==
    {[patient |-> FALSE, signal |-> TRUE, fails |-> TRUE, who |-> MCClients,
      leave |-> FALSE, frames |-> 0, kinds |-> {}, texts |-> {}],
     [patient |-> TRUE, signal |-> TRUE, fails |-> FALSE, who |-> {c1, c2},
      leave |-> FALSE, frames |-> 1, kinds |-> {"chat"}, texts |-> {1}],
     [patient |-> TRUE, signal |-> TRUE, fails |-> FALSE, who |-> {c1},
      leave |-> TRUE, frames |-> 1, kinds |-> {"chat", "bad"}, texts |-> {0, 1}],
     [patient |-> TRUE, signal |-> FALSE, fails |-> FALSE, who |-> {c1},
      leave |-> TRUE, frames |-> 2, kinds |-> {"chat", "bad"}, texts |-> {0, 1, 2}],
     [patient |-> TRUE, signal |-> FALSE, fails |-> FALSE, who |-> {c1, c2},
      leave |-> FALSE, frames |-> 2, kinds |-> {"chat"}, texts |-> {1}],
     [patient |-> TRUE, signal |-> FALSE, fails |-> FALSE, who |-> {c1},
      leave |-> FALSE, frames |-> 3, kinds |-> {"chat", "nil"}, texts |-> {1, 3, 5}]}
=============================================================================
