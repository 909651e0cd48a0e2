---------------------------- MODULE MCImageMerge ----------------------------
(* A small instance of ImageMerge for TLC: ImageMerge_inputs.cfg. *)
EXTENDS ImageMerge

CONSTANTS amd64, arm64, m1, m2

MCPlatforms == <<amd64, arm64>>

Data == [kind |-> "data", manifests |-> <<>>, needs |-> {}, platform |-> None, subject |-> None,
         sound |-> TRUE]
Index(names) == [Data EXCEPT !.kind = "index", !.manifests = names]
Image(p, layers) == [Data EXCEPT !.kind = "image", !.needs = layers, !.platform = p]
Attests(image) == [Data EXCEPT !.kind = "attestation", !.needs = {image, "empty"}, !.subject = image]

\* The images share a layer; one of the amd64 archives attests the other image.
MCContent == [
    layer   |-> Data,
    empty   |-> Data,
    spare   |-> Data,
    image1  |-> Image(amd64, {"layer"}),
    attest1 |-> Attests("image1"),
    more1   |-> Attests("image1"),
    inner1  |-> Index(<<"image1", "attest1">>),
    outer1  |-> Index(<<"inner1">>),
    image2  |-> Image(arm64, {"layer"}),
    attest2 |-> Attests("image2")]

Common == {"layer", "empty", "spare"}
Whole1 == Common \cup {"image1", "attest1", "inner1", "outer1"}
Whole2 == Common \cup {"image2", "attest2"}
Good(blobs, index) == [blobs |-> blobs, bad |-> {}, index |-> index]

\* amd64: nested, too many, too deep, listed twice, without a layer, damaged, another
\* image's; arm64: flat, two images, the other platform's.
MCArchives == amd64 :> {
        Good(Whole1, <<"inner1">>),
        Good(Whole1 \cup {"more1"}, <<"inner1", "more1">>),
        Good(Whole1, <<"outer1">>),
        Good(Whole1, <<"image1", "attest1", "attest1">>),
        Good(Whole1 \ {"layer"}, <<"image1">>),
        [Good(Whole1, <<"inner1">>) EXCEPT !.bad = {"spare"}],
        Good(Whole1 \cup Whole2, <<"image1", "attest2">>)}
    @@ arm64 :> {
        Good(Whole2, <<"image2", "attest2">>),
        Good(Whole2 \cup Whole1, <<"image1", "image2">>),
        Good(Whole1, <<"inner1">>)}
=============================================================================
