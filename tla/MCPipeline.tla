----------------------------- MODULE MCPipeline -----------------------------
(* Pipeline for a version of Go, which upstream names go<version>.         *)
EXTENDS Pipeline

MCSemVer == [v \in {"go1.2"} |-> "1.2.0"]

=============================================================================
