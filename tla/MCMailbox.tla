----------------------------- MODULE MCMailbox ------------------------------
(* Mailbox with messages that fit together, alone, and not at first.       *)
EXTENDS Mailbox

CONSTANTS tiny, small, medium, large

MCMsg == {tiny, small, medium, large}
MCHeader == 4
MCInitialBuffer == 16

\* tiny and small fit together, medium fills the buffer, large needs it doubled
\* twice.
MCSize == [m \in MCMsg |->
              CASE m = tiny -> 1 [] m = small -> 5 [] m = medium -> 12 [] m = large -> 40]

=============================================================================
