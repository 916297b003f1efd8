---------------------------- MODULE RenderedDocument ----------------------------
(***************************************************************************)
(* The document of an editor, and what the renderer makes of it after every *)
(* edit.                                                                    *)
(***************************************************************************)
EXTENDS DocumentEditor, FrameComposition

(* Every layer among those that is drawn at the frame can be: what it is     *)
(* made of are finite transforms and filters that apply.                     *)
LayersFit(d, layers, f) ==
    \A i \in layers :
        d.layers[i].kind # "IpAdapter" /\ IsVisibleAt(d, d.layers[i], f) => Fits(d, d.layers[i], f)

(* What validation accepts, the renderer, which asks by rules of its own,    *)
(* can render, every frame, as a whole and one artboard at a time; a layer   *)
(* whose numbers overflow is the only thing it refuses                       *)
(* (tests/CanvasMediaTest.cpp:191, 196), and it costs the frame and its own  *)
(* artboard, never another one.  What an artboard shows alone is what its    *)
(* group shows in the whole, to the last layer and its clipping, and nothing *)
(* else.                                                                     *)
EveryFrameRenders ==
    Valid(doc) =>
        \A f \in Frames :
            LET whole == RenderFrame(doc, f)
            IN  /\ whole.status = "Success" <=> LayersFit(doc, DOMAIN doc.layers, f)
                /\ \A b \in DOMAIN doc.boards :
                        LET id == doc.boards[b].id
                            alone == RenderArtboard(doc, f, id)
                        IN  /\ alone.status = "Success" <=>
                                    LayersFit(doc, {i \in DOMAIN doc.layers : doc.layers[i].board = id}, f)
                            /\ whole.status = "Success" =>
                                    \A x \in DOMAIN alone.at : alone.at[x] = <<whole.at[x][b], <<>>>>
===============================================================================
