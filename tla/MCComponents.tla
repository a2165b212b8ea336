---------------------------- MODULE MCComponents ----------------------------
(* The components that neither wait nor share state with the others, checked in *)
(* one run: the initial state chooses one of them, and only that one moves.     *)
EXTENDS ByteArray, ServletDispatch, Address, FdManager, FdContexts, HttpConnection, LogFormatter

VARIABLE turn

ByteArrayTurn  == turn = "ByteArray"       /\ Next
DispatchTurn   == turn = "ServletDispatch" /\ DispatchNext
AddressTurn    == turn = "Address"         /\ AddressNext
FdTurn         == turn = "FdManager"       /\ FdNext
TableTurn      == turn = "IOManager"       /\ TableNext
ConnectionTurn == turn = "HttpConnection"  /\ ConnectionNext
PatternTurn    == turn = "LogFormatter"    /\ PatternNext

componentVars ==
    <<turn, vars, dispatchVars, asked, fdVars, tableVars, connectionVars, m_pattern>>

ComponentsInit ==
    /\ turn \in {"ByteArray", "ServletDispatch", "Address", "FdManager", "IOManager",
                 "HttpConnection", "LogFormatter"}
    /\ Init /\ DispatchInit /\ AddressInit /\ FdInit /\ TableInit /\ ConnectionInit /\ PatternInit
    /\ turn # "HttpConnection" => response = [content |-> <<>>]

ComponentsNext ==
    \/ ByteArrayTurn /\ UNCHANGED <<turn, dispatchVars, asked, fdVars, tableVars, connectionVars, m_pattern>>
    \/ DispatchTurn /\ UNCHANGED <<turn, vars, asked, fdVars, tableVars, connectionVars, m_pattern>>
    \/ AddressTurn /\ UNCHANGED <<turn, vars, dispatchVars, fdVars, tableVars, connectionVars, m_pattern>>
    \/ FdTurn /\ UNCHANGED <<turn, vars, dispatchVars, asked, tableVars, connectionVars, m_pattern>>
    \/ TableTurn /\ UNCHANGED <<turn, vars, dispatchVars, asked, fdVars, connectionVars, m_pattern>>
    \/ ConnectionTurn /\ UNCHANGED <<turn, vars, dispatchVars, asked, fdVars, tableVars, m_pattern>>
    \/ PatternTurn /\ UNCHANGED <<turn, vars, dispatchVars, asked, fdVars, tableVars, connectionVars>>

ComponentsSpec == ComponentsInit /\ [][ComponentsNext]_componentVars
-----------------------------------------------------------------------------
(* ByteArray: nodes of two bytes of three bits; integers of five bits take three. *)
SomeStrings == {<<>>, <<4, 1, 6>>}
SomeValues  == {-16, 1, 15}

(* ServletDispatch: two patterns that match one path, one that matches another. *)
SomeMatches == {<<"p1", "u1">>, <<"p2", "u1">>, <<"p1", "u2">>}

(* HttpConnection: sizes with a digit that a read can cut off, one with a leading *)
(* zero, and data that looks like a size.                                         *)
Chunk(size, bytes) == [size |-> size, data |-> bytes]
LastChunk == Chunk(<<"0">>, <<>>)

SomeResponses ==
    {[content |-> <<"x", "y", "x">>],
     [content |-> <<>>],
     [chunks |-> <<LastChunk>>],
     [chunks |-> <<Chunk(<<"1", "0">>, <<"x", "y">>), Chunk(<<"0", "1">>, <<"0">>), LastChunk>>],
     [chunks |-> <<Chunk(<<"1", "1">>, <<"y", "0", "x">>), LastChunk>>]}
=============================================================================
