------------------------ MODULE MCTelemetryProcessor ------------------------
EXTENDS TelemetryProcessor

\* In X-Ray's own order, and with a root that is no root.
MCTraceHeaders ==
    <<<<Part("Sampled", "1", FALSE), Part("Parent", "b", FALSE), Part("Root", "a", FALSE)>>,
      <<Part("Root", "moved", FALSE), Part("Parent", "b", FALSE)>>>>
=============================================================================
