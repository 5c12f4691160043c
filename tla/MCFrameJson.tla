-------------------------------- MODULE MCFrameJson --------------------------------
(* The client with the conversion file that it is delivered with, for TLC.   *)
EXTENDS JsonTable

\* ConsoleClient/frame.json: 20 drive lines and 12 scan lines; twelve rows from
\* 11 down to 0, each with the columns 12 to 31.
MCFiles ==
    {[x |-> 20, y |-> 12,
      pcm |-> [i \in 1 .. 240 |-> [x |-> 12 + ((i - 1) % 20), y |-> 11 - ((i - 1) \div 20)]]]}

\* The matrix that the file names, one with as many lines as it counts, a smaller one.
MCBoardSizes == {[x |-> 20, y |-> 12], [x |-> 32, y |-> 12], [x |-> 10, y |-> 10]}
=============================================================================
