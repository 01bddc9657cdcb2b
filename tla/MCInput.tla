------------------------------ MODULE MCInput ------------------------------
EXTENDS Input, TeaStream

Typed(s) == [k \in 1..Len(s) |-> [c |-> s[k], p |-> FALSE]]
Paste(s) == Typed(<<"E", "[", "200~">>) \o [k \in 1..Len(s) |-> [c |-> s[k], p |-> TRUE]]
            \o Typed(<<"E", "[", "201~">>)

\* Gestures of the user, and what the terminal sends by itself.
Gestures == {Typed(<<"x">>), Typed(<<"p", "n">>), Typed(<<"p", "w", "n">>), Typed(<<"p", "c">>),
             Typed(<<"p">>), Typed(<<"E">>), Typed(<<"E", "n">>), Typed(<<"E", "[", "m">>),
             Typed(<<"E", "[", "k", "n">>), Typed(<<"E", "[", "?c">>), Typed(<<"E", "[", "A">>),
             Typed(<<"E", "]", "s">>), Paste(<<"x", "p", "n">>), Paste(<<"E">>), Paste(<<"E", "n">>)}
MCTexts == {a \o b \o Typed(<<"x">>) : a \in Gestures, b \in Gestures}
           \union {Typed(<<"p", "c">>) \o a \o b : a \in Gestures, b \in Gestures}

-----------------------------------------------------------------------------
\* Whole sequences of all kinds, and what follows an escape that introduces nothing.
CSI(s) == <<"ESC", "[">> \o s
Sequences == {<<"x">>, <<"A">>, <<" ">>, <<"u1", "u2">>, <<"^b">>, <<"CR">>, <<"ESC">>, <<"ESC", "x">>, <<"ESC", "u1", "u2">>,
              <<"ESC", "O", "A">>, <<"ESC", "O", "5", "M">>, <<"ESC", "O", "a">>, <<"ESC", "O", "w">>, <<"u2">>,
              <<"ESC", "]", "10", ";", "data", "BEL">>, <<"ESC", "]", "52", ";", "BEL">>, <<"ESC", "]", "data", "CAN">>,
              <<"ESC", "]", "1", ";", "data", "ESC", "\\">>, <<"ESC", "_", "data", "ESC", "\\">>, <<"ESC", "X", "CAN">>,
              <<"ESC", "P", "1", "+", "r", "data", "ESC", "\\">>, <<"ESC", "P", ">", "|", "data", "ESC", "\\">>,
              <<"ESC", "P", "!", "|", "data", "ESC", "\\">>, <<"ESC", "P", "q">>}
             \union {CSI(s) : s \in {<<"A">>, <<"Z">>, <<"1", ";", "5", "A">>, <<"1", ";", "2", ":", "3", "B">>, <<";", "A">>,
                                    <<"3", "~">>, <<"3", ";", "5", "~">>, <<"2", "$">>, <<"5", "^">>, <<"6", "@">>, <<"~">>,
                                    <<"27", ";", "5", ";", "97", "~">>, <<"27", "~">>, <<"98", ";", "5", "u">>, <<"97", "u">>,
                                    <<"97", ";", "1", ":", "3", "u">>, <<"57352", ";", "1", "u">>, <<"u">>,
                                    <<"<", "0", ";", "1", ";", "1", "M">>, <<"<", "64", ";", "1", ";", "1", "m">>,
                                    <<"<", "32", ";", "1", ";", "1", "m">>, <<"M", "3", "1", "1">>, <<"?", "1", "c">>, <<">", "1", "c">>,
                                    <<"?", "1", ";", "2", "$", "y">>, <<"2", ";", "1", "$", "y">>, <<"?", "1", "u">>, <<"R">>,
                                    <<"1", ";", "2", "R">>, <<"2", ";", "2", "R">>, <<"?", "1", ";", "1", "R">>,
                                    <<"?", "997", ";", "1", "n">>, <<">", "4", ";", "2", "m">>, <<"I">>, <<"O">>,
                                    <<"8", ";", "1", ";", "1", "t">>, <<"t">>, <<"x">>, <<"200">>}}
Begin == CSI(<<"200", "~">>)
End == CSI(<<"201", "~">>)
MCInputs == {a \o b : a \in Sequences, b \in Sequences} \union {Begin \o a \o <<"x">> \o End \o <<"x">> : a \in Sequences}

\* The way of what is typed, or the reader by itself.
MCInit == \/ Init /\ input = <<>> /\ left = <<>> /\ rd = NewReader /\ seen = <<>> /\ late = FALSE
          \/ /\ StreamInit /\ text = <<>>
             /\ pos = 0 /\ ch = <<>> /\ pending = <<>> /\ timeouts = 0 /\ rawCh = <<>> /\ pipe = <<>> /\ tea = NewReader
             /\ msgs = <<>> /\ step = "no" /\ token = <<>> /\ hurried = FALSE /\ ui = NewUI /\ log = <<>> /\ mixed = FALSE
MCNext == (Next /\ UNCHANGED streamVars) \/ (StreamNext /\ UNCHANGED vars)
MCSpec == MCInit /\ [][MCNext]_<<vars, streamVars>>
=============================================================================
