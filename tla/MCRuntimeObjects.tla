-------------------------- MODULE MCRuntimeObjects --------------------------
(* Model-checking instance of RuntimeObjects: a kernel with a result buffer,*)
(* an image, a sampler, a signal and a queue.                               *)
EXTENDS RuntimeObjects

Resource(op, key, arg) == [op |-> op, key |-> key, arg |-> arg]

MCResources ==
    << Resource("BufferCreate", "output", TRUE),
       Resource("ImageCreate", "image", TRUE),
       Resource("ImageImport", "image", FALSE),
       Resource("SamplerCreate", "sampler", FALSE),
       Resource("SignalCreate", "signal", TRUE),
       Resource("QueueCreate", "queue", TRUE) >>

Region(segment, kernarg, fineGrained, aligned, maxSize) ==
    [segment |-> segment, kernarg |-> kernarg, fineGrained |-> fineGrained,
     aligned |-> aligned, maxSize |-> maxSize, allocAllowed |-> TRUE]

\* Agents with all regions, without one for images, without a kernarg region
\* that is large enough.
MCRegionLists ==
    { << Region("group", FALSE, FALSE, FALSE, 65536),
         Region("global", TRUE, TRUE, TRUE, 65536) >>,
      << Region("global", TRUE, FALSE, FALSE, 256),
         Region("global", FALSE, TRUE, FALSE, 65536) >>,
      << Region("global", TRUE, FALSE, TRUE, 255),
         Region("global", FALSE, TRUE, TRUE, 65536) >> }
=============================================================================
