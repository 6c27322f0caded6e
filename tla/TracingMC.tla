------------------------------ MODULE TracingMC ------------------------------
EXTENDS Tracing

\* One exporter, with an initialize().
ExportersDef == <<"a">>
=============================================================================
