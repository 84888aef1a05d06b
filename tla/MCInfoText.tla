----------------------------- MODULE MCInfoText -----------------------------
(* Texts of every length around the sizes of what follows them, and longer  *)
(* than that; a custom name that is longer than a reply.                    *)
EXTENDS InfoText

Reply(map, keywords, edf) ==
    [header |-> <<73>>, protocol |-> <<17>>, name |-> <<1>>, map |-> map,
     folder |-> <<2>>, game |-> <<3>>, appid |-> <<4, 4>>, counts |-> <<5, 6, 7>>,
     kinds |-> <<8, 9, 10>>, vac |-> <<11>>, version |-> <<12>>, edf |-> <<edf>>,
     gameport |-> <<13, 13>>, serversid |-> [i \in 1..8 |-> IF i = 1 THEN 255 ELSE 14],
     sourcetv_port |-> <<15, 15>>, sourcetv_name |-> <<16>>,
     keywords |-> keywords, servergameid |-> [i \in 1..8 |-> 17]]

Short == [i \in 1..9 |-> 98]
Long == [i \in 1..30 |-> 99]

\* No optional field; a source TV and a game id without a game port; keywords
\* alone; what servers send, with keywords last, and with all of it.
MCReplies ==
    {Reply(<<>>, <<>>, 0), Reply(Short, <<>>, 0), Reply(Short, <<>>, 65),
     Reply(<<>>, Long, 32), Reply(Long, Short, 32),
     Reply(<<>>, Short, 176), Reply(Short, Long, 176), Reply(Long, <<>>, 176),
     Reply(<<>>, <<>>, 241), Reply(Short, Short, 241), Reply(Long, Long, 241)}

MCLeftovers == {<<>>, <<97>>}

MCCustomNames == {<<>>, [i \in 1..50 |-> 121]}
=============================================================================
