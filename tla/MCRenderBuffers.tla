--------------------------- MODULE MCRenderBuffers ---------------------------
(* The frame buffers of the application with a window of three sizes.        *)
EXTENDS RenderBuffers

MCEmptyParams == {"minimized"}
MCRefusedParams == {"huge"}
MCParams == {"minimized", "normal", "huge"}
==============================================================================
