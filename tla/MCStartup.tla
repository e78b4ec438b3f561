------------------------------ MODULE MCStartup ------------------------------
EXTENDS Startup

Unit(zeros, bytes) == [zeros |-> zeros, bytes |-> bytes]

\* SPS, PPS, SEI and picture of the blank frame, the parameter sets behind
\* four-byte codes and the rest behind three, as x264 writes them; inside the
\* units bytes that look like parts of a start code.
MCOutput == <<Unit(3, <<103, 0, 0, 3, 1>>), Unit(3, <<104, 9>>),
              Unit(2, <<6, 0, 1>>), Unit(2, <<101>>)>>
=============================================================================
