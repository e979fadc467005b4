------------------------------- MODULE MCAlone -------------------------------
(***************************************************************************)
(* The components that work alone, for TLC: the free list, the table of    *)
(* queues, register contexts and the C library.  None calls another but    *)
(* through the contracts their modules state, so one is taken at a time:   *)
(* it moves only while the others are as they began.                       *)
(***************************************************************************)
EXTENDS Memory, MCQueueLinks, Context, Strings, Numbers, Sort, Format

MCFlags == {<< >>, <<"-">>, <<"0">>, <<"-", "0">>}
MCWidths == {<< >>, <<"3">>, <<"1", "2">>, <<"*">>, <<"8", "0">>, <<"8", "1">>}
MCPrecisions == {<< >>, <<".", "2">>}
MCLongs == {0, 7, 8, 10, 255, 65536, 2147483647, -1, -10, -1294967296, -2147483647 - 1}
MCStars == {5, -3}
MCTexts == {<< >>, <<"a">>, <<"a", "b", "c", "d">>, Null}

Init ==
  MemInit /\ LinksInit /\ CtxInit /\ StrInit /\ NumInit /\ SortInit /\ FormatInit

Next ==
  \/ /\ LinksInit /\ CtxInit /\ StrInit /\ NumInit /\ SortInit /\ FormatInit
     /\ MemNext
     /\ UNCHANGED <<linkvars, cvars, strvars, num, sortvars, formatvars>>
  \/ /\ MemInit /\ CtxInit /\ StrInit /\ NumInit /\ SortInit /\ FormatInit
     /\ LinksNext
     /\ UNCHANGED <<memvars, cvars, strvars, num, sortvars, formatvars>>
  \/ /\ MemInit /\ LinksInit /\ StrInit /\ NumInit /\ SortInit /\ FormatInit
     /\ CtxNext
     /\ UNCHANGED <<memvars, linkvars, strvars, num, sortvars, formatvars>>
  \/ /\ MemInit /\ LinksInit /\ CtxInit /\ NumInit /\ SortInit /\ FormatInit
     /\ StrNext
     /\ UNCHANGED <<memvars, linkvars, cvars, num, sortvars, formatvars>>
  \/ /\ MemInit /\ LinksInit /\ CtxInit /\ StrInit /\ SortInit /\ FormatInit
     /\ NumNext
     /\ UNCHANGED <<memvars, linkvars, cvars, strvars, sortvars, formatvars>>
  \/ /\ MemInit /\ LinksInit /\ CtxInit /\ StrInit /\ NumInit /\ FormatInit
     /\ SortNext
     /\ UNCHANGED <<memvars, linkvars, cvars, strvars, num, formatvars>>
  \/ /\ MemInit /\ LinksInit /\ CtxInit /\ StrInit /\ NumInit /\ SortInit
     /\ FormatNext
     /\ UNCHANGED <<memvars, linkvars, cvars, strvars, num, sortvars>>

Spec == Init /\ [][Next]_<<memvars, linkvars, cvars, strvars, num, sortvars, formatvars>>

View == <<LinkView, memvars, cvars, strvars, num, sortvars, formatvars>>
=============================================================================
