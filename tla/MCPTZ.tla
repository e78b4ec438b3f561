------------------------------- MODULE MCPTZ --------------------------------
EXTENDS PTZ

Vec(p, t, z) == [pan |-> p, tilt |-> t, zoom |-> z]

\* Down and round, up and zooming in (out of range: clamped), nothing.
MCVelInput == {Vec(-1, -1, 0), Vec(2, 1, 1), Vec(0, 0, 0)}

\* The seam from both sides; a corner beyond every range.
MCAbsInput == {Vec(-3, 0, 0), Vec(9, -9, 9)}

\* The largest turn RelativeMove brings back into range, and one that leaves
\* the target less or more than a turn out of range, depending on where the
\* head is.
MCRelInput == {Vec(-6, -1, 1), Vec(13, -1, 1)}

\* More than a full turn.
MCRelFar == {Vec(7, 0, 0)}

\* On the seam, at nadir, zoomed in.
MCSaveAt == {Vec(PanMax, -TiltMax, ZoomMax)}
=============================================================================
