--------------------------- MODULE MCVulkanFrames ---------------------------
(* Four frames reuse each of the two command buffers once; with two pairs   *)
(* of shaders the cache may hold a pipeline, a failed one, or none of each. *)
EXTENDS VulkanFrames
=============================================================================
